---------------------------- MODULE Spec2Model ----------------------------
(***************************************************************************)
(* Copilot Terminal Carousel: the session manager, the PTY read pump, the  *)
(* transcript/meta/index stores and the WebSocket handlers, as one state   *)
(* machine.                                                                *)
(*                                                                         *)
(* Scheduling model (asyncio, one event loop): a task runs without         *)
(* interruption from one suspension point to the next.  Each action below  *)
(* is therefore one such run of one task: from the arrival of a message,   *)
(* or from the completion of the await the task was suspended at, up to    *)
(* the next await that really suspends (an aiofiles write, a websocket     *)
(* send, the join of the read task, a contended lock).                     *)
(*                                                                         *)
(* Tasks: one receive loop per client connection, one read pump per        *)
(* session (PtyProcess._read_task), and the lifespan task that calls       *)
(* SessionManager.shutdown.                                                *)
(***************************************************************************)
EXTENDS Integers, Sequences, FiniteSets, TLC

(***************************************************************************)
(* Bounds of the model.                                                    *)
(***************************************************************************)
\* Lifecycle scenarios: session ids uuid4() can hand out, and messages the
\* connections send in total.
MaxIds == 2
MaxRequests == 2
\* Transcript scenarios (one session): chunks its PTY produces, and messages.
IoChunks == 1
IoRequests == 3
\* Fan-out scenarios (one session): chunks its PTY produces, and messages.
FanChunks == 2
FanRequests == 2
\* Messages received in the resize scenarios.
ResizeRequests == 3
\* Messages received in the input-after-terminate scenarios.
TermRequests == 3
\* Chunks each PTY produces, and messages received, in the binding scenarios.
BindChunks == 1
BindRequests == 3
\* Chunks the PTY produces, and messages received, in the fault scenarios.
FaultChunks == 2
FaultRequests == 2
\* One PtyProcess on its own: reads its executor completes, calls of write,
\* and calls of each of terminate and stop.
PtyChunks == 1
PtyWrites == 3
PtyCalls == 2

\* Messages received in the detach scenarios.
DetachRequests == 2

\* Read-pump scenarios: chunks the PTY produces, and messages received.
PumpChunks == 1
PumpRequests == 2

\* List scenarios: session ids, messages received, and readings of the clock.
ListIds == 2
ListRequests == 3
ListTicks == 1

\* Atomic-write scenarios: writes begun, and distinct documents written.
AwWrites == 3
AwDocs == 2

\* Receive-loop scenarios: messages received, and ticks of the clock.
WsRequests == 3
WsTicks == 2
\* RateLimiter(max_messages, window_seconds), scaled down: the program runs
\* with 200 messages per window of 1.0 s; the window is counted in ticks.
RateMax == 2
RateWindow == 2

\* Client connections (client_id = uuid4() per accepted websocket).
Clients == {"c1", "c2"}
\* The lifespan task that runs SessionManager.shutdown.
SD == "shutdown"
\* Tasks that can run terminate_session: the receive loops and the lifespan task.
Callers == Clients \cup {SD}

\* settings.MAX_INPUT_CHARS_PER_MESSAGE
MAX_INPUT_CHARS_PER_MESSAGE == 16384
\* ServerHelloMessage.protocolVersion
PROTOCOL_VERSION == 1
\* settings: the terminal dimensions.
INITIAL_COLS == 120
INITIAL_ROWS == 30
MIN_COLS == 20
MAX_COLS == 300
MIN_ROWS == 5
MAX_ROWS == 120

VARIABLES
    settings,     \* the Settings object: [MAX_SESSIONS |-> n], fixed at start-up
    limits,       \* the scenario's limits: [ids, chunks, requests]
    nextId,       \* the next session id uuid4() yields
    table,        \* SessionManager._sessions (its keys)
    lock,         \* SessionManager._lock: "free" or the client holding it
    ptyRunning,   \* PtyProcess._running, per session
    ptyHandle,    \* PtyProcess._pty is not None, per session
    pump,         \* state of PtyProcess._read_task, per session
    chunkNo,      \* chunks the pump has read so far, per session
    fanSnap,      \* attached_clients when the current fan-out began, per session
    fanVisited,   \* clients the current fan-out has visited, per session
    escaped,      \* an exception left _on_pty_output and ended the read loop
    attached,     \* Session.attached_clients, per session
    bound,        \* WebSocketConnection._attached_session per client (0 = None)
    conn,         \* connection state per client: "new", "open", "closed"
    pc,           \* where each caller task is suspended
    arg,          \* the session id of the request a caller task is running
    pend,         \* seq of the transcript line a caller task allocated, not yet written
    pumpPend,     \* the same for the read pump of each session
    shTodo,       \* shutdown: ids of its snapshot still to terminate
    metaStatus,   \* meta.json status per session ("none" = no file)
    metaDims,     \* meta.json cols and rows per session (<<0, 0>> = no file)
    metaActivity, \* meta.json lastActivityAt per session: the number of its writes
    ptyDims,      \* PtyProcess.cols and rows per session (<<0, 0>> = no object)
    index,        \* index.json: the sessions list
    seqCounter,   \* TranscriptStore._seq_counters
    transcript,   \* transcript.jsonl per session: lines in file order
    ptyInput,     \* number of writes handed to the PTY, per session
    reqs,         \* messages received so far, over all connections
    lastReply,    \* the reply to the client's last request
    outLog,       \* chunks sent as term.out, per client and session, in send order
    exitPush,     \* session.exited pushes by the exit trampoline, per client/session
    exitReply,    \* session.exited replies to session.terminate, per client/session
    metaError,    \* meta.json error.code per session ("null"; "none" = no file)
    metaPid,      \* meta.json pid per session ("null" or "pid"; "none" = no file)
    helloSent,    \* protocolVersion of the server.hello messages sent, per client
    now,          \* time.time(), in ticks
    rateTimes,    \* RateLimiter._message_times, per client
    recvTimes,    \* the times at which receive_text returned a message, per client
    closeCode,    \* the code the server closed the websocket with, per client (0 = none)
    awTarget,     \* atomic_write_json: the target file [exists, text]
    awTemp,       \* atomic_write_json: the temp file of the write [exists, text]
    awDoc,        \* atomic_write_json: [old |-> the target when the write began,
                  \*                     new |-> the document being written]
    awPc,         \* atomic_write_json: the step the writer is at
    listed,       \* the sessions of the last session.list.result, per client
    exitCalls,    \* invocations of the exit callback (on_exit), per session
    objVariant,   \* the PtyProcess object on its own: "none", "real" or "mock"
    objPid,       \* its _pid: "none", "pid", or "failed" after a failed spawn
    objPty,       \* its _pty is not None
    objAlive,     \* its child process is alive
    objRunning,   \* its _running
    objExitCode,  \* its _exit_code: "none", "exitstatus" or "mock_exit_code"
    objReadTask,  \* its _read_task: "none", where it is suspended, or how it ended
    objInputBuffer, \* MockPtyProcess._input_buffer
    objAccepted,  \* the inputs write() has accepted, in order
    objOutput,    \* the chunks on_output has been given, in order
    objReads,     \* reads the executor has completed
    objWrites,    \* calls of write()
    objCalls      \* calls of terminate() and of stop()

vars == << settings, limits, nextId, table, lock, ptyRunning, ptyHandle, pump,
           chunkNo, fanSnap, fanVisited, escaped, attached, bound, conn, pc, arg,
           pend, pumpPend, shTodo, metaStatus, metaDims, metaActivity, ptyDims,
           index, seqCounter,
           transcript,
           ptyInput, reqs, lastReply, outLog, exitPush, exitReply,
           metaError, metaPid, helloSent, now, rateTimes, recvTimes, closeCode,
           awTarget, awTemp, awDoc, awPc, listed, exitCalls,
           objVariant, objPid, objPty, objAlive, objRunning, objExitCode,
           objReadTask, objInputBuffer, objAccepted, objOutput, objReads,
           objWrites, objCalls >>

\* The fields of the PtyProcess object driven on its own.
objVars == << objVariant, objPid, objPty, objAlive, objRunning, objExitCode,
             objReadTask, objInputBuffer, objAccepted, objOutput, objReads,
             objWrites, objCalls >>

\* What handle_session_list last returned.
listVars == << listed >>

\* The state of the receive loops besides the connection state.
wsVars == << helloSent, now, rateTimes, recvTimes, closeCode >>

\* What the dispatcher and the receive loop never touch: the state of the
\* session manager, of the PTYs and of the stores.
managerVars == << settings, limits, nextId, table, lock, ptyRunning, ptyHandle,
                  pump, chunkNo, fanSnap, fanVisited, escaped, arg, pend,
                  pumpPend, shTodo, metaStatus, metaDims, metaActivity, ptyDims,
                  index, seqCounter, transcript, ptyInput, outLog, exitPush,
                  exitReply, metaError, metaPid >>

\* The state of atomic_write_json and of the file it writes.
awVars == << awTarget, awTemp, awDoc, awPc >>

\* A path at which there is no file.
NoFile == [exists |-> FALSE, text |-> << >>]

\* Every session id a scenario can allocate (the ids are 1, 2, ... in model).
Sessions == 1..limits.ids

\* Ids a client may name in a request: every id the scenario can allocate (in
\* the table or not yet) and one id that no session ever gets.
NamedIds == 1..(limits.ids + 1)

(***************************************************************************)
(* Initial state: a fresh process with an empty data directory.            *)
(***************************************************************************)
InitWith(maxSessions, ids, chunks, requests, connState) ==
    /\ settings = [MAX_SESSIONS |-> maxSessions]
    /\ limits = [ids |-> ids, chunks |-> chunks, requests |-> requests]
    /\ nextId = 1
    /\ table = {}
    /\ lock = "free"
    /\ ptyRunning = [s \in 1..ids |-> FALSE]
    /\ ptyHandle = [s \in 1..ids |-> FALSE]
    /\ pump = [s \in 1..ids |-> "none"]
    /\ chunkNo = [s \in 1..ids |-> 0]
    /\ fanSnap = [s \in 1..ids |-> {}]
    /\ fanVisited = [s \in 1..ids |-> {}]
    /\ escaped = [s \in 1..ids |-> FALSE]
    /\ attached = [s \in 1..ids |-> {}]
    /\ bound = [c \in Clients |-> 0]
    /\ conn = [c \in Clients |-> connState]
    /\ pc = [t \in Callers |-> "idle"]
    /\ arg = [t \in Callers |-> 0]
    /\ pend = [t \in Callers |-> 0]
    /\ pumpPend = [s \in 1..ids |-> 0]
    /\ shTodo = {}
    /\ metaStatus = [s \in 1..ids |-> "none"]
    /\ metaDims = [s \in 1..ids |-> << 0, 0 >>]
    /\ metaActivity = [s \in 1..ids |-> 0]
    /\ ptyDims = [s \in 1..ids |-> << 0, 0 >>]
    /\ index = << >>
    /\ seqCounter = [s \in 1..ids |-> 0]
    /\ transcript = [s \in 1..ids |-> << >>]
    /\ ptyInput = [s \in 1..ids |-> 0]
    /\ reqs = 0
    /\ lastReply = [c \in Clients |-> "none"]
    /\ outLog = [c \in Clients |-> [s \in 1..ids |-> << >>]]
    /\ exitPush = [c \in Clients |-> [s \in 1..ids |-> 0]]
    /\ exitReply = [c \in Clients |-> [s \in 1..ids |-> 0]]
    /\ metaError = [s \in 1..ids |-> "none"]
    /\ metaPid = [s \in 1..ids |-> "none"]
    /\ helloSent = [c \in Clients |-> IF connState = "new" THEN << >>
                                                          ELSE << PROTOCOL_VERSION >>]
    /\ now = 0
    /\ rateTimes = [c \in Clients |-> IF connState = "new" THEN << >> ELSE << 0 >>]
    /\ recvTimes = [c \in Clients |-> << >>]
    /\ closeCode = [c \in Clients |-> 0]
    /\ awTarget = NoFile
    /\ awTemp = NoFile
    /\ awDoc = [old |-> NoFile, new |-> 0]
    /\ awPc = "idle"
    /\ listed = [c \in Clients |-> << >>]
    /\ exitCalls = [s \in 1..ids |-> 0]
    /\ objVariant = "none"
    /\ objPid = "none"
    /\ objPty = FALSE
    /\ objAlive = FALSE
    /\ objRunning = FALSE
    /\ objExitCode = "none"
    /\ objReadTask = "none"
    /\ objInputBuffer = << >>
    /\ objAccepted = << >>
    /\ objOutput = << >>
    /\ objReads = 0
    /\ objWrites = 0
    /\ objCalls = [terminate |-> 0, stop |-> 0]


(***************************************************************************)
(* Stores.                                                                 *)
(***************************************************************************)
\* SessionManager.running_session_count
running_session_count == Cardinality({s \in table : ptyRunning[s]})

\* The mutation of the capacity test: an off-by-one comparison.
AtCapacityOffByOne == running_session_count > settings.MAX_SESSIONS

\* create_session's capacity test.
AtCapacity == running_session_count >= settings.MAX_SESSIONS

\* IndexStore.add_session: load, append an entry, save.
IndexAddSession(idx, s, status) ==
    Append(idx, [sessionId |-> s, status |-> status, name |-> "",
                 createdAt |-> now])

\* The place of entry e in a list sorted by createdAt descending: after every
\* entry that is not older (list.sort is stable, also with reverse=True).
InsertDescending(sorted, e) ==
    LET before == SelectSeq(sorted, LAMBDA x : x.createdAt >= e.createdAt)
        after == SelectSeq(sorted, LAMBDA x : x.createdAt < e.createdAt)
    IN  before \o << e >> \o after

RECURSIVE SortDescending(_)
SortDescending(entries) ==
    IF entries = << >> THEN << >>
    ELSE InsertDescending(SortDescending(SubSeq(entries, 1, Len(entries) - 1)),
                          entries[Len(entries)])

\* The variant of get_all_sessions that returns the entries in file order.
GetAllSessionsFileOrder(idx) == idx

\* IndexStore.get_all_sessions: load, sort by createdAt descending.
GetAllSessions(idx) == SortDescending(idx)

\* Position of the first entry of idx with id s (0 if there is none).
IndexFind(idx, s) ==
    LET hits == {i \in 1..Len(idx) : idx[i].sessionId = s}
    IN  IF hits = {} THEN 0 ELSE CHOOSE i \in hits : \A j \in hits : i <= j

\* The mutation of update_session_status: the index write is lost.
IndexUpdateStatusLost(idx, s, status) == idx

\* IndexStore.update_session_status: the first entry with that id, if any.
IndexUpdateStatus(idx, s, status) ==
    LET i == IndexFind(idx, s)
    IN  IF i = 0 THEN idx ELSE [idx EXCEPT ![i].status = status]

\* IndexStore.update_session_name: the first entry with that id, if any.
IndexUpdateName(idx, s, name) ==
    LET i == IndexFind(idx, s)
    IN  IF i = 0 THEN idx ELSE [idx EXCEPT ![i].name = name]

\* MetaStore.create: the dimensions the file is created with.
MetaCreateDimensions(md, s) == [md EXCEPT ![s] = << INITIAL_COLS, INITIAL_ROWS >>]

\* The mutation of update_dimensions: the write of meta.json is lost.
MetaUpdateDimensionsLost(md, s, cols, rows) == md

\* MetaStore.update_dimensions: load; if the file exists, set cols and rows
\* and save.
MetaUpdateDimensions(md, s, cols, rows) ==
    IF metaStatus[s] = "none" THEN md ELSE [md EXCEPT ![s] = << cols, rows >>]

\* MetaStore.update_activity, and the same write of lastActivityAt in
\* update_status and update_dimensions: load; if the file exists, stamp it.
MetaUpdateActivity(ma, s) ==
    IF metaStatus[s] = "none" THEN ma ELSE [ma EXCEPT ![s] = @ + 1]

\* The mutation of PtyProcess.resize: cols and rows are not stored.
PtyResizeLost(pd, s, cols, rows) == pd

\* PtyProcess.resize after setwinsize succeeded: the cached dimensions.
PtyResize(pd, s, cols, rows) == [pd EXCEPT ![s] = << cols, rows >>]

\* The mutation of the failure branch of create_session: meta.json is
\* created without the error.
MetaCreateErrorLost(ok) == "null"

\* create_session's argument `error` of MetaStore.create: absent when the
\* spawn succeeded, {code: SPAWN_FAILED, message} when it failed.
MetaCreateError(ok) == IF ok THEN "null" ELSE "SPAWN_FAILED"

\* create_session's argument `pid` of MetaStore.create: pty.pid when the
\* spawn succeeded, None when it failed.
MetaCreatePid(ok) == IF ok THEN "pid" ELSE "null"

\* MetaStore.create: status derives from the presence of error.
MetaCreate(ms, s, error) ==
    [ms EXCEPT ![s] = IF error THEN "exited" ELSE "running"]

\* MetaStore.update_status: load; if the file exists, set status and save.
MetaUpdateStatus(ms, s, status) ==
    IF ms[s] = "none" THEN ms ELSE [ms EXCEPT ![s] = status]

\* One transcript line: the event's seq and what it records.
Line(seq, kind) == [seq |-> seq, kind |-> kind]

\* TranscriptStore._get_next_seq: the value the next event gets.
NextSeq(s) == seqCounter[s] + 1

\* _append_event / _append_event_sync: the line reaches the end of the file.
WriteLine(tr, s, seq, kind) == [tr EXCEPT ![s] = Append(@, Line(seq, kind))]

\* Smallest element of a non-empty set of ids (dict order = insertion order).
MinOf(S) == CHOOSE x \in S : \A y \in S : x <= y

\* The variant of stop() that does not wait for the read task to end.
PumpFinishedNotAwaited(s) == TRUE

\* The read task has finished (returned, raised or was cancelled).
PumpFinished(s) == pump[s] \in {"done", "cancelled"}

\* The variant of handle_output / handle_exit that sends whatever session
\* the connection is bound to.
SendsUnbound(c, s) == conn[c] = "open"

\* A client whose output/exit callback sends: the callback is registered
\* (set on connect, removed on disconnect) and the connection is bound to s.
Sends(c, s) == conn[c] \in {"hello", "open"} /\ bound[c] = s

\* The connection table holds the connection of c: put there after accept,
\* popped by the finally block.
InConnectionTable(c) == conn[c] \in {"hello", "open", "broken"}

\* The manager holds an output and an exit callback for c: set after accept,
\* removed by remove_client_callbacks in the finally block.
CallbackRegistered(c) == conn[c] \in {"hello", "open", "broken"}

\* The variant of the endpoint that sends no server.hello.
SendHelloNever(h, c) == h

\* `await conn.send_json(hello.model_dump())`: one server.hello is handed to
\* the socket.
SendHello(h, c) == [h EXCEPT ![c] = Append(@, PROTOCOL_VERSION)]

\* websocket_endpoint from accept to its first suspension: the connection
\* is put in the connection table, its output and exit callbacks are set in
\* the manager, and server.hello is sent.
Connect(c) ==
    /\ conn[c] = "new"
    /\ conn' = [conn EXCEPT ![c] = "hello"]
    /\ helloSent' = SendHello(helloSent, c)
    /\ UNCHANGED << managerVars, awVars, listVars, objVars, exitCalls, attached, bound, pc, reqs, lastReply,
                    now, rateTimes, recvTimes, closeCode >>

\* RateLimiter.check, first half: the timestamps of the client that are
\* younger than the window.
RateRecent(times, t) == SelectSeq(times, LAMBDA x : x > t - RateWindow)

\* RateLimiter.check, second half: within the limit unless the window
\* already holds max_messages timestamps.
RateAllows(c) == Len(RateRecent(rateTimes[c], now)) < RateMax

\* The top of `while True`: rate_limiter.check; within the limit the
\* timestamp is recorded and the task suspends in receive_text, else
\* RATE_LIMIT_EXCEEDED is sent.
LoopTop(c) ==
    IF RateAllows(c)
    THEN /\ rateTimes' = [rateTimes EXCEPT ![c] = Append(RateRecent(@, now), now)]
         /\ pc' = [pc EXCEPT ![c] = "idle"]
         /\ UNCHANGED lastReply
    ELSE /\ rateTimes' = [rateTimes EXCEPT ![c] = RateRecent(@, now)]
         /\ pc' = [pc EXCEPT ![c] = "rate_send"]
         /\ lastReply' = [lastReply EXCEPT ![c] = "error:RATE_LIMIT_EXCEEDED"]

\* The send of server.hello has completed: the receive loop begins.
HelloSent(c) ==
    /\ conn[c] = "hello"
    /\ conn' = [conn EXCEPT ![c] = "open"]
    /\ LoopTop(c)
    /\ UNCHANGED << managerVars, awVars, listVars, objVars, exitCalls, attached, bound, reqs, helloSent, now,
                    recvTimes, closeCode >>

\* time.time() advances.
Tick ==
    /\ now < WsTicks
    /\ now' = now + 1
    /\ UNCHANGED << managerVars, awVars, listVars, objVars, exitCalls, attached, bound, conn, pc, reqs,
                    lastReply, helloSent, rateTimes, recvTimes, closeCode >>

\* The mutation of detach_all_sessions: the client stays attached.
DetachAllLost(att, c) == att

\* RateLimiter.cleanup
RateCleanup(rt, c) == [rt EXCEPT ![c] = << >>]

\* SessionManager.detach_all_sessions
DetachAll(att, c) == [s \in DOMAIN att |-> IF s \in table THEN att[s] \ {c} ELSE att[s]]

\* A detach_session that empties the session's set of attached clients.
DetachOneClears(att, s, c) == [att EXCEPT ![s] = {}]

\* session.attached_clients.discard(client_id)
DetachOne(att, s, c) == [att EXCEPT ![s] = @ \ {c}]

\* SessionManager.detach_session: the session is looked up in the table; an
\* id that is not there is ignored, and discard ignores a client that is
\* not in the set.
DetachSession(c, s) ==
    /\ attached' = IF s \in table THEN DetachOne(attached, s, c) ELSE attached
    /\ UNCHANGED << managerVars, wsVars, awVars, listVars, objVars, exitCalls,
                    bound, conn, pc, reqs, lastReply >>

\* websocket_endpoint's finally block, reached from receive_text: evict the
\* connection, remove the callbacks, detach from every session in the table,
\* drop the rate limiter's timestamps.
Disconnect(c) ==
    /\ conn[c] = "open"
    /\ pc[c] = "idle"
    /\ conn' = [conn EXCEPT ![c] = "closed"]
    /\ attached' = DetachAll(attached, c)
    /\ rateTimes' = RateCleanup(rateTimes, c)
    /\ UNCHANGED << managerVars, awVars, listVars, objVars, exitCalls, bound, pc, reqs, lastReply, helloSent,
                    now, recvTimes, closeCode >>

\* The transport of c fails while the server still holds the connection for
\* connected: from now on a send to c raises.
ConnectionBreaks(c) ==
    /\ conn[c] = "open"
    /\ pc[c] = "idle"
    /\ conn' = [conn EXCEPT ![c] = "broken"]
    /\ UNCHANGED << pumpPend, ptyDims, metaActivity, metaDims, awVars, listVars, objVars, exitCalls, wsVars, metaError, metaPid, settings, limits,
                    nextId, table, lock, ptyRunning, ptyHandle, pump, chunkNo,
                    fanSnap, fanVisited, escaped, attached, bound, pc, arg,
                    pend, shTodo, metaStatus, index, seqCounter, transcript,
                    ptyInput, reqs, lastReply, outLog, exitPush, exitReply >>

\* A client whose output/exit callback raises: its connection is bound to s
\* and the send fails.
Raises(c, s) == conn[c] = "broken" /\ bound[c] = s

\* The receive loop of c takes its next message.
Receives(c) ==
    /\ conn[c] = "open"
    /\ pc[c] = "idle"
    /\ reqs < limits.requests
    /\ reqs' = reqs + 1

(***************************************************************************)
(* atomic_write_json and read_json_file                                    *)
(***************************************************************************)
\* The documents written: JSON objects with one member, {"v": d}.
Docs == 1..AwDocs

\* The digit of a value.
Digit(d) == CASE d = 0 -> "0" [] d = 1 -> "1" [] d = 2 -> "2" [] d = 3 -> "3"
              [] OTHER -> "9"

\* json.dump(data, f, indent=2): the text of a document, token by token.
Serialize(d) == << "{", "\"v\":", Digit(d), "}" >>

\* What a read yields: a document, or an error.
ReadOk(d) == [kind |-> "doc", doc |-> d]
ReadError(kind) == [kind |-> kind, doc |-> 0]

\* json.load: the document of a text, "malformed" (JSONDecodeError) when the
\* text is not a complete object.
Parse(text) ==
    IF /\ Len(text) = 4
       /\ text[1] = "{" /\ text[2] = "\"v\":" /\ text[4] = "}"
       /\ \E d \in 0..AwDocs : Digit(d) = text[3]
    THEN ReadOk(CHOOSE d \in 0..AwDocs : Digit(d) = text[3])
    ELSE ReadError("malformed")

\* read_json_file: FileNotFoundError, JSONDecodeError or the document.
ReadJsonFile(file) ==
    IF file.exists THEN Parse(file.text) ELSE ReadError("not_found")

\* The variant of the writer that renames whatever the temp file holds.
TempCompleteAssumed(temp, d) == TRUE

\* The with block has ended: json.dump, flush and fsync are done, the temp
\* file holds the whole text.
TempComplete(temp, d) == temp.text = Serialize(d)

\* atomic_write_json begins: mkstemp creates an empty temp file in the
\* directory of the target.
AtomicWriteBegin(d) ==
    /\ awPc = "idle"
    /\ reqs < limits.requests
    /\ reqs' = reqs + 1
    /\ awTemp' = [exists |-> TRUE, text |-> << >>]
    /\ awDoc' = [old |-> awTarget, new |-> d]
    /\ awPc' = "writing"
    /\ UNCHANGED << managerVars, wsVars, listVars, objVars, exitCalls, attached, bound, conn, pc, lastReply,
                    awTarget >>

\* Part of the text reaches the temp file.
AtomicWriteChunk ==
    /\ awPc = "writing"
    /\ Len(awTemp.text) < Len(Serialize(awDoc.new))
    /\ awTemp' = [awTemp EXCEPT !.text =
                      Append(@, Serialize(awDoc.new)[Len(@) + 1])]
    /\ UNCHANGED << managerVars, wsVars, listVars, objVars, exitCalls, attached, bound, conn, pc, lastReply,
                    reqs, awTarget, awDoc, awPc >>

\* temp.replace(path): the rename puts the temp file at the target path in
\* one step, and atomic_write_json returns.
AtomicWriteReplace ==
    /\ awPc = "writing"
    /\ TempComplete(awTemp, awDoc.new)
    /\ awTarget' = awTemp
    /\ awTemp' = NoFile
    /\ awPc' = "idle"
    /\ UNCHANGED << managerVars, wsVars, listVars, objVars, exitCalls, attached, bound, conn, pc, lastReply,
                    reqs, awDoc >>

\* The write or the rename raises: the temp file is unlinked and the error
\* re-raised; the target is as before.
AtomicWriteFails ==
    /\ awPc = "writing"
    /\ awTemp' = NoFile
    /\ awPc' = "idle"
    /\ UNCHANGED << managerVars, wsVars, listVars, objVars, exitCalls, attached, bound, conn, pc, lastReply,
                    reqs, awTarget, awDoc >>

\* The process dies during a write: the files stay as they are.
AtomicWriteCrash ==
    /\ awPc = "writing"
    /\ awPc' = "crashed"
    /\ UNCHANGED << managerVars, wsVars, listVars, objVars, exitCalls, attached, bound, conn, pc, lastReply,
                    reqs, awTarget, awTemp, awDoc >>

\* The process is started again; the temp file of the dead write is left
\* behind under its own name.
AtomicWriteRestart ==
    /\ awPc = "crashed"
    /\ awPc' = "idle"
    /\ UNCHANGED << managerVars, wsVars, listVars, objVars, exitCalls, attached, bound, conn, pc, lastReply,
                    reqs, awTarget, awTemp, awDoc >>

(***************************************************************************)
(* The dispatcher and the receive loop                                     *)
(***************************************************************************)
\* The text frames a client can send, by what the dispatcher makes of them:
\* text that is not JSON; JSON that is not an object (an array, a number, a
\* string, null); an object without a type (or with a falsy one); an object
\* whose type is none of the seven request types; an object of a known
\* type that violates the type's schema; a valid session.list.
FrameKinds == { "not_json", "not_object", "no_type", "unknown_type", "schema",
                "session.list" }

\* The classes an exception is an instance of.  pydantic's ValidationError
\* derives from ValueError, json's JSONDecodeError too.
ExceptionBases(exc) ==
    CASE exc = "JSONDecodeError"  -> {"JSONDecodeError", "ValueError", "Exception"}
      [] exc = "AttributeError"   -> {"AttributeError", "Exception"}
      [] exc = "ValueError"       -> {"ValueError", "Exception"}
      [] exc = "ValidationError"  -> {"ValidationError", "ValueError", "Exception"}
      [] OTHER                    -> {"Exception"}

\* What the statements of dispatch before the handler raise on a frame
\* ("none" = nothing): json.loads, data.get("type"), parse_client_message.
LoadsRaises(kind) == IF kind = "not_json" THEN "JSONDecodeError" ELSE "none"
GetTypeRaises(kind) == IF kind = "not_object" THEN "AttributeError" ELSE "none"
ParseRaises(kind) ==
    CASE kind = "unknown_type" -> "ValueError"
      [] kind = "schema"       -> "ValidationError"
      [] OTHER                 -> "none"

\* The variant of dispatch without the try around the handler call.
HandlerErrorEscapes == TRUE

\* dispatch's `try: return await handler(...) except Exception`: an error of
\* the handler does not leave dispatch.
HandlerErrorLeavesDispatch == FALSE

\* MessageDispatcher.dispatch on a frame: the reply it returns, or "raised"
\* when an exception leaves it.  The except clauses are tried in the order
\* of the source: ValueError, then ValidationError.
DispatchResult(kind, handlerFails) ==
    IF LoadsRaises(kind) # "none" THEN "error:INVALID_MESSAGE"
    ELSE IF GetTypeRaises(kind) # "none" THEN "raised"
    ELSE IF kind = "no_type" THEN "error:INVALID_MESSAGE"
    ELSE IF ParseRaises(kind) # "none"
    THEN IF "ValueError" \in ExceptionBases(ParseRaises(kind))
         THEN "error:UNKNOWN_MESSAGE_TYPE"
         ELSE IF "ValidationError" \in ExceptionBases(ParseRaises(kind))
         THEN "error:INVALID_MESSAGE"
         ELSE "raised"
    ELSE IF handlerFails
    THEN IF HandlerErrorLeavesDispatch THEN "raised" ELSE "error:INTERNAL_ERROR"
    ELSE "session.list.result"

\* The receive loop got a frame of that kind and dispatched it.  A valid
\* session.list runs handle_session_list, which reads index.json and fails
\* when the read raises.  With a reply the task suspends in its send; an
\* exception that leaves dispatch is caught by the endpoint's `except
\* Exception`, and the finally block runs in the same run.
ReceiveFrame(c, kind) ==
    /\ Receives(c)
    /\ recvTimes' = [recvTimes EXCEPT ![c] = Append(@, now)]
    /\ \E handlerFails \in BOOLEAN :
       IF DispatchResult(kind, handlerFails) = "raised"
       THEN /\ conn' = [conn EXCEPT ![c] = "closed"]
            /\ attached' = DetachAll(attached, c)
            /\ rateTimes' = RateCleanup(rateTimes, c)
            /\ lastReply' = [lastReply EXCEPT ![c] = "none"]
            /\ UNCHANGED pc
       ELSE /\ lastReply' = [lastReply EXCEPT ![c] = DispatchResult(kind, handlerFails)]
            /\ pc' = [pc EXCEPT ![c] = "reply_send"]
            /\ UNCHANGED << conn, attached, rateTimes >>
    /\ UNCHANGED << managerVars, awVars, listVars, objVars, exitCalls, bound, helloSent, now, closeCode >>

\* The variant of the endpoint that closes after no reply.
ClosesAfterNothing(reply) == FALSE

\* `if response.get("code") == ErrorCodes.UNKNOWN_MESSAGE_TYPE`
ClosesAfter(reply) == reply = "error:UNKNOWN_MESSAGE_TYPE"

\* The send of the reply has completed: after UNKNOWN_MESSAGE_TYPE the
\* endpoint closes the websocket with 1008, else the loop goes on.
ReplySent(c) ==
    /\ pc[c] = "reply_send"
    /\ IF ClosesAfter(lastReply[c])
       THEN /\ closeCode' = [closeCode EXCEPT ![c] = 1008]
            /\ pc' = [pc EXCEPT ![c] = "closing"]
            /\ UNCHANGED << rateTimes, lastReply >>
       ELSE /\ LoopTop(c)
            /\ UNCHANGED closeCode
    /\ UNCHANGED << managerVars, awVars, listVars, objVars, exitCalls, attached, bound, conn, reqs, helloSent,
                    now, recvTimes >>

\* The send of RATE_LIMIT_EXCEEDED has completed: the endpoint closes the
\* websocket with 1011.
RateReplySent(c) ==
    /\ pc[c] = "rate_send"
    /\ closeCode' = [closeCode EXCEPT ![c] = 1011]
    /\ pc' = [pc EXCEPT ![c] = "closing"]
    /\ UNCHANGED << managerVars, awVars, listVars, objVars, exitCalls, attached, bound, conn, reqs, lastReply,
                    helloSent, now, rateTimes, recvTimes >>

\* websocket.close has returned: break, and the finally block runs.
ReceiveLoopEnded(c) ==
    /\ pc[c] = "closing"
    /\ pc' = [pc EXCEPT ![c] = "idle"]
    /\ conn' = [conn EXCEPT ![c] = "closed"]
    /\ attached' = DetachAll(attached, c)
    /\ rateTimes' = RateCleanup(rateTimes, c)
    /\ UNCHANGED << managerVars, awVars, listVars, objVars, exitCalls, bound, reqs, lastReply, helloSent, now,
                    recvTimes, closeCode >>

\* handle_session_list: SessionManager.list_sessions returns
\* index_store.get_all_sessions(); a failing read of index.json is answered
\* INTERNAL_ERROR by dispatch.
HandleSessionList(c) ==
    /\ Receives(c)
    /\ \E fails \in BOOLEAN :
          /\ lastReply' = [lastReply EXCEPT ![c] = DispatchResult("session.list", fails)]
          /\ listed' = IF fails THEN listed
                       ELSE [listed EXCEPT ![c] = GetAllSessions(index)]
    /\ UNCHANGED << managerVars, awVars, wsVars, objVars, exitCalls, attached,
                    bound, conn, pc >>

\* The wall clock (datetime.now) reads another value: it advanced, or it was
\* set back.
ClockSet(t) ==
    /\ t # now
    /\ now' = t
    /\ UNCHANGED << managerVars, awVars, listVars, objVars, exitCalls, attached, bound, conn, pc,
                    reqs, lastReply, helloSent, rateTimes, recvTimes, closeCode >>

(***************************************************************************)
(* session.create                                                          *)
(***************************************************************************)
\* create_session from the capacity test to its first await, the lock held.
\* spawn succeeds or fails (ok); uuid4 yields the next id.
CreateLocked(c) ==
    IF AtCapacity
    THEN /\ lock' = "free"
         /\ pc' = [pc EXCEPT ![c] = "idle"]
         /\ lastReply' = [lastReply EXCEPT ![c] = "error:MAX_SESSIONS_REACHED"]
         /\ UNCHANGED << nextId, arg, seqCounter, pend, ptyRunning, ptyHandle,
                         metaStatus, metaDims, metaActivity, ptyDims, index,
                         metaError, metaPid >>
    ELSE \E ok \in BOOLEAN :
         LET s == nextId IN
         /\ lock' = c
         /\ nextId' = nextId + 1
         /\ arg' = [arg EXCEPT ![c] = s]
         /\ seqCounter' = [seqCounter EXCEPT ![s] = 1]
         /\ pend' = [pend EXCEPT ![c] = 1]
         /\ ptyRunning' = [ptyRunning EXCEPT ![s] = ok]
         /\ ptyHandle' = [ptyHandle EXCEPT ![s] = ok]
         /\ metaStatus' = MetaCreate(metaStatus, s, ~ok)
         /\ metaError' = [metaError EXCEPT ![s] = MetaCreateError(ok)]
         /\ metaPid' = [metaPid EXCEPT ![s] = MetaCreatePid(ok)]
         /\ metaDims' = MetaCreateDimensions(metaDims, s)
         /\ metaActivity' = [metaActivity EXCEPT ![s] = 1]
         /\ ptyDims' = [ptyDims EXCEPT ![s] = << INITIAL_COLS, INITIAL_ROWS >>]
         /\ index' = IndexAddSession(index, s, IF ok THEN "running" ELSE "exited")
         /\ pc' = [pc EXCEPT ![c] = IF ok THEN "create_append" ELSE "create_fail_append"]
         /\ UNCHANGED lastReply

\* Clients suspended in create_session at `async with self._lock`.
LockWaiters == {d \in Clients : pc[d] = "create_wait"}

\* handle_session_create: the message arrives; asyncio.Lock.acquire takes
\* the lock at once when it is free and nobody waits, else the task waits.
HandleSessionCreate(c) ==
    /\ Receives(c)
    /\ nextId + Cardinality(LockWaiters) <= limits.ids
    /\ IF lock = "free" /\ LockWaiters = {}
       THEN CreateLocked(c)
       ELSE /\ pc' = [pc EXCEPT ![c] = "create_wait"]
            /\ UNCHANGED << lock, nextId, arg, seqCounter, pend, ptyRunning,
                            ptyHandle, metaStatus, metaDims, metaActivity,
                            ptyDims, index, lastReply, metaError, metaPid >>
    /\ UNCHANGED << pumpPend, awVars, listVars, objVars, exitCalls, wsVars, settings, limits, table, pump, chunkNo, fanSnap, fanVisited,
                    escaped, attached, bound, conn, shTodo, transcript, ptyInput,
                    outLog, exitPush, exitReply >>

\* The waiting create_session is woken and holds the lock.
CreateSessionAcquire(c) ==
    /\ pc[c] = "create_wait"
    /\ lock = "free"
    /\ CreateLocked(c)
    /\ UNCHANGED << pumpPend, awVars, listVars, objVars, exitCalls, wsVars, settings, limits, table, pump, chunkNo, fanSnap, fanVisited,
                    escaped, attached, bound, conn, shTodo, transcript, ptyInput,
                    reqs, outLog, exitPush, exitReply >>

\* Spawn failed: the spawn_failed line is written, the lock released, the
\* handler replies SPAWN_FAILED.
CreateSessionSpawnFailed(c) ==
    /\ pc[c] = "create_fail_append"
    /\ transcript' = WriteLine(transcript, arg[c], pend[c], "spawn_failed")
    /\ pend' = [pend EXCEPT ![c] = 0]
    /\ lock' = "free"
    /\ pc' = [pc EXCEPT ![c] = "idle"]
    /\ lastReply' = [lastReply EXCEPT ![c] = "error:SPAWN_FAILED"]
    /\ UNCHANGED << pumpPend, metaDims, ptyDims, metaActivity, awVars, listVars, objVars, exitCalls, wsVars, metaError, metaPid, settings, limits, nextId, table, ptyRunning, ptyHandle, pump,
                    chunkNo, fanSnap, fanVisited, escaped, attached, bound, conn,
                    arg, shTodo, metaStatus, index, seqCounter, ptyInput, reqs,
                    outLog, exitPush, exitReply >>

\* Spawn succeeded: the created line is written, the session is inserted,
\* the read task is created, the lock released; handle_session_create binds
\* the connection and calls attach_session, which suspends at its append.
CreateSessionInserted(c) ==
    LET s == arg[c] IN
    /\ pc[c] = "create_append"
    /\ transcript' = WriteLine(transcript, s, pend[c], "created")
    /\ table' = table \cup {s}
    /\ pump' = [pump EXCEPT ![s] = "read"]
    /\ lock' = "free"
    /\ bound' = [bound EXCEPT ![c] = s]
    /\ attached' = [attached EXCEPT ![s] = @ \cup {c}]
    /\ seqCounter' = [seqCounter EXCEPT ![s] = @ + 1]
    /\ pend' = [pend EXCEPT ![c] = NextSeq(s)]
    /\ pc' = [pc EXCEPT ![c] = "create_attach_append"]
    /\ UNCHANGED << pumpPend, metaDims, ptyDims, metaActivity, awVars, listVars, objVars, exitCalls, wsVars, metaError, metaPid, settings, limits, nextId, ptyRunning, ptyHandle, chunkNo,
                    fanSnap, fanVisited, escaped, conn, arg, shTodo, metaStatus,
                    index, ptyInput, reqs, lastReply, outLog, exitPush,
                    exitReply >>

\* to_session_info / handle_session_attach: the status a reply reports.
LiveStatus(s) == IF ptyRunning[s] THEN "running" ELSE "exited"

\* The attached line is written; the handler replies session.created.
CreateSessionReplied(c) ==
    LET s == arg[c] IN
    /\ pc[c] = "create_attach_append"
    /\ transcript' = WriteLine(transcript, s, pend[c], "attached")
    /\ pend' = [pend EXCEPT ![c] = 0]
    /\ pc' = [pc EXCEPT ![c] = "idle"]
    /\ lastReply' = [lastReply EXCEPT ![c] = "session.created:" \o LiveStatus(s)]
    /\ UNCHANGED << pumpPend, metaDims, ptyDims, metaActivity, awVars, listVars, objVars, exitCalls, wsVars, metaError, metaPid, settings, limits, nextId, table, lock, ptyRunning, ptyHandle,
                    pump, chunkNo, fanSnap, fanVisited, escaped, attached, bound,
                    conn, arg, shTodo, metaStatus, index, seqCounter, ptyInput,
                    reqs, outLog, exitPush, exitReply >>

\* The variant of attach_session that accepts a session known only from
\* its meta.json.
AttachKnownOnDisk(s) ==
    s \in table \/ (s \in Sessions /\ metaStatus[s] # "none")

\* attach_session's lookup: self._sessions.get(session_id); an id that is
\* not in the table is refused whether meta_store.load finds a file or not.
AttachKnown(s) == s \in table

(***************************************************************************)
(* session.attach                                                          *)
(***************************************************************************)
\* handle_session_attach up to attach_session's append (or its error reply).
HandleSessionAttach(c, s) ==
    /\ Receives(c)
    /\ IF ~AttachKnown(s)
       THEN /\ lastReply' = [lastReply EXCEPT ![c] = "error:SESSION_NOT_FOUND"]
            /\ UNCHANGED << attached, seqCounter, pend, pc, arg >>
       ELSE /\ attached' = [attached EXCEPT ![s] = @ \cup {c}]
            /\ seqCounter' = [seqCounter EXCEPT ![s] = @ + 1]
            /\ pend' = [pend EXCEPT ![c] = NextSeq(s)]
            /\ pc' = [pc EXCEPT ![c] = "attach_append"]
            /\ arg' = [arg EXCEPT ![c] = s]
            /\ UNCHANGED lastReply
    /\ UNCHANGED << pumpPend, metaDims, ptyDims, metaActivity, awVars, listVars, objVars, exitCalls, wsVars, metaError, metaPid, settings, limits, nextId, table, lock, ptyRunning, ptyHandle,
                    pump, chunkNo, fanSnap, fanVisited, escaped, bound, conn,
                    shTodo, metaStatus, index, transcript, ptyInput, outLog,
                    exitPush, exitReply >>

\* The attached line is written; the handler binds the connection and
\* replies session.attached.
SessionAttachReplied(c) ==
    LET s == arg[c] IN
    /\ pc[c] = "attach_append"
    /\ transcript' = WriteLine(transcript, s, pend[c], "attached")
    /\ pend' = [pend EXCEPT ![c] = 0]
    /\ bound' = [bound EXCEPT ![c] = s]
    /\ pc' = [pc EXCEPT ![c] = "idle"]
    /\ lastReply' = [lastReply EXCEPT ![c] = "session.attached:" \o LiveStatus(s)]
    /\ UNCHANGED << pumpPend, metaDims, ptyDims, metaActivity, awVars, listVars, objVars, exitCalls, wsVars, metaError, metaPid, settings, limits, nextId, table, lock, ptyRunning, ptyHandle,
                    pump, chunkNo, fanSnap, fanVisited, escaped, attached, conn,
                    arg, shTodo, metaStatus, index, seqCounter, ptyInput, reqs,
                    outLog, exitPush, exitReply >>


(***************************************************************************)
(* terminate_session (from session.terminate and from shutdown)            *)
(***************************************************************************)
\* The mutation of PtyProcess.terminate: the running flag is left set.
PtyTerminateFlagKept(run, s) == run

\* PtyProcess.terminate: nothing without a handle, else the flag is cleared.
PtyTerminate(run, s) == IF ptyHandle[s] THEN [run EXCEPT ![s] = FALSE] ELSE run

\* Task.cancel() on the read task: CancelledError is thrown into it at the
\* await it is suspended at; the state remembers a transcript write in flight.
CancelRequested(state) ==
    CASE state = "out_append"  -> "cancel_out"
      [] state = "exit_append" -> "cancel_exit"
      [] state \in {"cancel_out", "cancel_exit"} -> state
      [] OTHER -> "cancelling"

\* The variant of terminate_session that also runs the exit callbacks of the
\* clients attached to the session.
TerminatePushesAttached(s) ==
    [c \in Clients |-> [exitPush[c] EXCEPT ![s] =
                           IF c \in attached[s] /\ Sends(c, s) THEN @ + 1 ELSE @]]

\* What terminate_session pushes to the attached clients: nothing; it calls
\* no exit callback.
TerminatePushes(s) == exitPush

\* terminate_session after `await session.pty.stop()` returned: release the
\* handle, persist exited in meta.json and index.json, allocate the seq of
\* the terminated line and suspend at its append.
TerminateAfterStop(t, s) ==
    /\ exitPush' = TerminatePushes(s)
    /\ ptyHandle' = [ptyHandle EXCEPT ![s] = FALSE]
    /\ metaStatus' = MetaUpdateStatus(metaStatus, s, "exited")
    /\ index' = IndexUpdateStatus(index, s, "exited")
    /\ seqCounter' = [seqCounter EXCEPT ![s] = @ + 1]
    /\ pend' = [pend EXCEPT ![t] = NextSeq(s)]
    /\ pc' = [pc EXCEPT ![t] = "term_append"]

\* terminate_session(s) by task t, s in the table, to its first suspension:
\* stop() terminates the PTY and cancels the read task; a finished read task
\* does not suspend the caller, an unfinished one does.
TerminateBegin(t, s) ==
    /\ ptyRunning' = PtyTerminate(ptyRunning, s)
    /\ arg' = [arg EXCEPT ![t] = s]
    /\ IF PumpFinished(s)
       THEN /\ TerminateAfterStop(t, s)
            /\ UNCHANGED pump
       ELSE /\ pump' = [pump EXCEPT ![s] = CancelRequested(@)]
            /\ pc' = [pc EXCEPT ![t] = "term_stop"]
            /\ pend' = [pend EXCEPT ![t] = 0]
            /\ UNCHANGED << ptyHandle, metaStatus, index, seqCounter, exitPush >>

\* handle_session_terminate: the message arrives.
HandleSessionTerminate(c, s) ==
    /\ Receives(c)
    /\ IF s \notin table
       THEN /\ lastReply' = [lastReply EXCEPT ![c] = "error:SESSION_NOT_FOUND"]
            /\ UNCHANGED << ptyRunning, arg, pump, pc, pend, ptyHandle,
                            metaStatus, index, seqCounter, exitPush >>
       ELSE /\ TerminateBegin(c, s)
            /\ UNCHANGED lastReply
    /\ metaActivity' = IF pc'[c] = "term_append"
                       THEN MetaUpdateActivity(metaActivity, s) ELSE metaActivity
    /\ UNCHANGED << pumpPend, metaDims, ptyDims, awVars, listVars, objVars, exitCalls, wsVars, metaError, metaPid, settings, limits, nextId, table, lock, chunkNo, fanSnap,
                    fanVisited, escaped, attached, bound, conn, shTodo,
                    transcript, ptyInput, outLog, exitReply >>

\* `await self._read_task` returns in stop(): the read task has finished.
TerminateStopped(t) ==
    /\ pc[t] = "term_stop"
    /\ PumpFinished(arg[t])
    /\ TerminateAfterStop(t, arg[t])
    /\ metaActivity' = MetaUpdateActivity(metaActivity, arg[t])
    /\ UNCHANGED << pumpPend, metaDims, ptyDims, awVars, listVars, objVars, exitCalls, wsVars, metaError, metaPid, settings, limits, nextId, table, lock, ptyRunning, pump,
                    chunkNo, fanSnap, fanVisited, escaped, attached, bound, conn,
                    arg, shTodo, transcript, ptyInput, reqs, lastReply, outLog,
                    exitReply >>

\* The terminated line is written; handle_session_terminate replies
\* session.exited to the requester.
SessionTerminateReplied(c) ==
    LET s == arg[c] IN
    /\ c \in Clients
    /\ pc[c] = "term_append"
    /\ transcript' = WriteLine(transcript, s, pend[c], "terminated")
    /\ pend' = [pend EXCEPT ![c] = 0]
    /\ pc' = [pc EXCEPT ![c] = "idle"]
    /\ lastReply' = [lastReply EXCEPT ![c] = "session.exited"]
    /\ exitReply' = [exitReply EXCEPT ![c][s] = @ + 1]
    /\ UNCHANGED << pumpPend, metaDims, ptyDims, metaActivity, awVars, listVars, objVars, exitCalls, wsVars, metaError, metaPid, settings, limits, nextId, table, lock, ptyRunning, ptyHandle,
                    pump, chunkNo, fanSnap, fanVisited, escaped, attached, bound,
                    conn, arg, shTodo, metaStatus, index, seqCounter, ptyInput,
                    reqs, outLog, exitPush >>

(***************************************************************************)
(* shutdown                                                                *)
(***************************************************************************)
\* shutdown: snapshot the keys of the table and terminate the first one; with
\* an empty table, clear it and return.
ShutdownStart ==
    /\ pc[SD] = "idle"
    /\ IF table = {}
       THEN /\ pc' = [pc EXCEPT ![SD] = "done"]
            /\ UNCHANGED << shTodo, ptyRunning, arg, pump, pend, ptyHandle,
                            metaStatus, index, seqCounter, exitPush >>
       ELSE /\ TerminateBegin(SD, MinOf(table))
            /\ shTodo' = table \ {MinOf(table)}
    /\ metaActivity' = IF pc'[SD] = "term_append"
                       THEN MetaUpdateActivity(metaActivity, arg'[SD]) ELSE metaActivity
    /\ UNCHANGED << pumpPend, metaDims, ptyDims, awVars, listVars, objVars, exitCalls, wsVars, metaError, metaPid, settings, limits, nextId, table, lock, chunkNo, fanSnap,
                    fanVisited, escaped, attached, bound, conn, transcript,
                    ptyInput, reqs, lastReply, outLog, exitReply >>

\* shutdown resumes after one terminate_session returned: the terminated
\* line is written; the loop goes on to the next id of the snapshot, or
\* clears the table and returns.
ShutdownNext ==
    /\ pc[SD] = "term_append"
    /\ transcript' = WriteLine(transcript, arg[SD], pend[SD], "terminated")
    /\ IF shTodo = {}
       THEN /\ table' = {}
            /\ pc' = [pc EXCEPT ![SD] = "done"]
            /\ pend' = [pend EXCEPT ![SD] = 0]
            /\ UNCHANGED << shTodo, ptyRunning, arg, pump, ptyHandle,
                            metaStatus, index, seqCounter, exitPush >>
       ELSE /\ TerminateBegin(SD, MinOf(shTodo))
            /\ shTodo' = shTodo \ {MinOf(shTodo)}
            /\ UNCHANGED table
    /\ metaActivity' = IF pc'[SD] = "term_append"
                       THEN MetaUpdateActivity(metaActivity, arg'[SD]) ELSE metaActivity
    /\ UNCHANGED << pumpPend, metaDims, ptyDims, awVars, listVars, objVars, exitCalls, wsVars, metaError, metaPid, settings, limits, nextId, lock, chunkNo, fanSnap,
                    fanVisited, escaped, attached, bound, conn, ptyInput, reqs,
                    lastReply, outLog, exitReply >>

(***************************************************************************)
(* term.in                                                                 *)
(***************************************************************************)
\* Lengths of the data of a term.in message that are tried.
InputSizes == {1, MAX_INPUT_CHARS_PER_MESSAGE, MAX_INPUT_CHARS_PER_MESSAGE + 1}

\* The variant of send_input that looks the session up before it tests the
\* size of the data.
SendInputResultKnownFirst(s, n) ==
    IF s \notin table THEN "error:SESSION_NOT_FOUND"
    ELSE IF ~ptyRunning[s] THEN "error:SESSION_NOT_RUNNING"
    ELSE IF n > MAX_INPUT_CHARS_PER_MESSAGE THEN "error:INPUT_TOO_LARGE"
    ELSE "ok"

\* The variant of the PTY write that hands the data over twice.
PtyWriteTwice(pi, s) == [pi EXCEPT ![s] = @ + 2]

\* PtyProcess.write: a no-op without a handle or when not running, else the
\* data goes to the child once.
PtyWrite(pi, s) ==
    [pi EXCEPT ![s] = IF ptyHandle[s] /\ ptyRunning[s] THEN @ + 1 ELSE @]

\* send_input: the error code, or "ok" (size, then known, then running).
SendInputResult(s, n) ==
    IF n > MAX_INPUT_CHARS_PER_MESSAGE THEN "error:INPUT_TOO_LARGE"
    ELSE IF s \notin table THEN "error:SESSION_NOT_FOUND"
    ELSE IF ~ptyRunning[s] THEN "error:SESSION_NOT_RUNNING"
    ELSE "ok"

\* The variant of the attachment test that lets every connection through.
TermInAllowedAlways(c, s) == TRUE

\* handle_term_in's test: the connection exists and is bound to that session.
TermInAllowed(c, s) == conn[c] = "open" /\ bound[c] = s

\* handle_term_in: NOT_ATTACHED unless the connection is bound to s; else
\* send_input, which on success writes to the PTY and appends the input
\* event synchronously (seq allocated and line written in one run).
HandleTermIn(c, s, n) ==
    /\ Receives(c)
    /\ IF ~TermInAllowed(c, s)
       THEN /\ lastReply' = [lastReply EXCEPT ![c] = "error:NOT_ATTACHED"]
            /\ UNCHANGED << ptyInput, seqCounter, transcript, metaActivity >>
       ELSE IF SendInputResult(s, n) # "ok"
       THEN /\ lastReply' = [lastReply EXCEPT ![c] = SendInputResult(s, n)]
            /\ UNCHANGED << ptyInput, seqCounter, transcript, metaActivity >>
       ELSE /\ ptyInput' = PtyWrite(ptyInput, s)
            /\ seqCounter' = [seqCounter EXCEPT ![s] = @ + 1]
            /\ transcript' = WriteLine(transcript, s, NextSeq(s), "in")
            /\ metaActivity' = MetaUpdateActivity(metaActivity, s)
            /\ lastReply' = [lastReply EXCEPT ![c] = "none"]
    /\ UNCHANGED << pumpPend, metaDims, ptyDims, awVars, listVars, objVars, exitCalls, wsVars, metaError, metaPid, settings, limits, nextId, table, lock, ptyRunning, ptyHandle,
                    pump, chunkNo, fanSnap, fanVisited, escaped, attached, bound,
                    conn, pc, arg, pend, shTodo, metaStatus, index, outLog,
                    exitPush, exitReply >>


(***************************************************************************)
(* term.resize and session.rename                                          *)
(***************************************************************************)
\* Dimensions of a term.resize message that are tried: the smallest and the
\* largest valid ones, and one pair out of range in each direction.
ResizeInputs ==
    { << MIN_COLS, MIN_ROWS >>, << MAX_COLS, MAX_ROWS >>,
      << MIN_COLS - 1, MIN_ROWS >>, << MAX_COLS + 1, MAX_ROWS >>,
      << MIN_COLS, MIN_ROWS - 1 >>, << MAX_COLS, MAX_ROWS + 1 >> }

\* The variant of resize_session that looks the session up before it
\* validates the dimensions.
ResizeResultLookupFirst(s, cols, rows, winOk) ==
    IF s \notin table THEN "error:SESSION_NOT_FOUND"
    ELSE IF ~(ptyHandle[s] /\ ptyRunning[s] /\ winOk) THEN "error:RESIZE_FAILED"
    ELSE "ok"

\* resize_session: the error code, or "ok" (bounds, then known, then the
\* PTY's own resize, which fails without a handle, when not running, or
\* when setwinsize raises: winOk is FALSE).
ResizeResult(s, cols, rows, winOk) ==
    IF ~(MIN_COLS <= cols /\ cols <= MAX_COLS) THEN "error:INVALID_RESIZE"
    ELSE IF ~(MIN_ROWS <= rows /\ rows <= MAX_ROWS) THEN "error:INVALID_RESIZE"
    ELSE IF s \notin table THEN "error:SESSION_NOT_FOUND"
    ELSE IF ~(ptyHandle[s] /\ ptyRunning[s] /\ winOk) THEN "error:RESIZE_FAILED"
    ELSE "ok"

\* handle_term_resize: resize_session runs to its end without suspending;
\* on success the PTY and meta.json take the new dimensions and nothing is
\* replied.
HandleTermResize(c, s, cols, rows) ==
    /\ Receives(c)
    /\ \E winOk \in BOOLEAN :
       IF ResizeResult(s, cols, rows, winOk) # "ok"
       THEN /\ lastReply' = [lastReply EXCEPT ![c] = ResizeResult(s, cols, rows, winOk)]
            /\ UNCHANGED << metaDims, ptyDims, metaActivity >>
       ELSE /\ ptyDims' = PtyResize(ptyDims, s, cols, rows)
            /\ metaDims' = MetaUpdateDimensions(metaDims, s, cols, rows)
            /\ metaActivity' = MetaUpdateActivity(metaActivity, s)
            /\ lastReply' = [lastReply EXCEPT ![c] = "none"]
    /\ UNCHANGED << pumpPend, awVars, listVars, objVars, exitCalls, wsVars, metaError, metaPid, settings, limits, nextId, table, lock, ptyRunning,
                    ptyHandle, pump, chunkNo, fanSnap, fanVisited, escaped,
                    attached, bound, conn, pc, arg, pend, shTodo, metaStatus,
                    index, seqCounter, transcript, ptyInput, outLog, exitPush,
                    exitReply >>

\* Names of a session.rename message that are tried.
RenameInputs == {"n"}

\* handle_session_rename: the index entry takes the name, or the session is
\* not in the index.
HandleSessionRename(c, s, name) ==
    /\ Receives(c)
    /\ IF IndexFind(index, s) = 0
       THEN /\ lastReply' = [lastReply EXCEPT ![c] = "error:SESSION_NOT_FOUND"]
            /\ UNCHANGED index
       ELSE /\ index' = IndexUpdateName(index, s, name)
            /\ lastReply' = [lastReply EXCEPT ![c] = "session.renamed"]
    /\ UNCHANGED << pumpPend, ptyDims, metaActivity, awVars, listVars, objVars, exitCalls, wsVars, metaError, metaPid, settings, limits, nextId, table, lock, ptyRunning,
                    ptyHandle, pump, chunkNo, fanSnap, fanVisited, escaped,
                    attached, bound, conn, pc, arg, pend, shTodo, metaStatus,
                    metaDims, seqCounter, transcript, ptyInput, outLog,
                    exitPush, exitReply >>

(***************************************************************************)
(* The read pump (PtyProcess._read_loop) and the manager's trampolines     *)
(***************************************************************************)
\* _handle_exit up to its first suspension: clear the running flag, call
\* _on_pty_exit, which returns at once for a session not in the table and
\* else persists exited, allocates the seq of the exited line and suspends
\* at its append.
ExitBegin(s) ==
    /\ ptyRunning' = [ptyRunning EXCEPT ![s] = FALSE]
    /\ exitCalls' = [exitCalls EXCEPT ![s] = @ + 1]
    /\ IF s \notin table
       THEN /\ pump' = [pump EXCEPT ![s] = "done"]
            /\ pumpPend' = [pumpPend EXCEPT ![s] = 0]
            /\ UNCHANGED << metaStatus, index, seqCounter >>
       ELSE /\ metaStatus' = MetaUpdateStatus(metaStatus, s, "exited")
            /\ index' = IndexUpdateStatus(index, s, "exited")
            /\ seqCounter' = [seqCounter EXCEPT ![s] = @ + 1]
            /\ pumpPend' = [pumpPend EXCEPT ![s] = NextSeq(s)]
            /\ pump' = [pump EXCEPT ![s] = "exit_append"]

\* `while self._running and self._pty`: back to the executor read, or out
\* of the loop into _handle_exit.
LoopAgain(s) ==
    IF ptyRunning[s] /\ ptyHandle[s]
    THEN /\ pump' = [pump EXCEPT ![s] = "read"]
         /\ pumpPend' = [pumpPend EXCEPT ![s] = 0]
         /\ UNCHANGED << ptyRunning, metaStatus, index, seqCounter, exitCalls >>
    ELSE ExitBegin(s)

\* The executor read returns a chunk: _on_pty_output allocates the seq of
\* the out line and suspends at its append (it returns at once for a
\* session that is not in the table).
PumpRead(s) ==
    /\ pump[s] = "read"
    /\ chunkNo[s] < limits.chunks
    /\ chunkNo' = [chunkNo EXCEPT ![s] = @ + 1]
    /\ IF s \notin table
       THEN /\ LoopAgain(s)
       ELSE /\ seqCounter' = [seqCounter EXCEPT ![s] = @ + 1]
            /\ pumpPend' = [pumpPend EXCEPT ![s] = NextSeq(s)]
            /\ pump' = [pump EXCEPT ![s] = "out_append"]
            /\ UNCHANGED << ptyRunning, metaStatus, index, exitCalls >>
    /\ UNCHANGED << pend, metaDims, ptyDims, metaActivity, awVars, listVars, objVars, wsVars, metaError, metaPid, settings, limits, nextId, table, lock, ptyHandle, fanSnap,
                    fanVisited, escaped, attached, bound, conn, pc, arg, shTodo,
                    transcript, ptyInput, reqs, lastReply, outLog, exitPush,
                    exitReply >>

\* _read_pty raises EOFError (the child is gone): the loop breaks and
\* _handle_exit runs.
PumpEOF(s) ==
    /\ pump[s] = "read"
    /\ ExitBegin(s)
    /\ metaActivity' = IF s \in table
                       THEN MetaUpdateActivity(metaActivity, s) ELSE metaActivity
    /\ UNCHANGED << pend, metaDims, ptyDims, awVars, listVars, objVars, wsVars, metaError, metaPid, settings, limits, nextId, table, lock, ptyHandle, chunkNo,
                    fanSnap, fanVisited, escaped, attached, bound, conn, pc, arg,
                    shTodo, transcript, ptyInput, reqs, lastReply, outLog,
                    exitPush, exitReply >>

\* The variant of the callback call that hands the send to a task of its
\* own instead of awaiting it: the frame of an earlier chunk can leave last.
OutputCallbackDetached(log, c, s) == [log EXCEPT ![c][s] = << chunkNo[s] >> \o @]

\* callback(session_id, data) of a sending client: handle_output frames
\* one term.out with the chunk and sends it.
OutputCallback(log, c, s) == [log EXCEPT ![c][s] = Append(@, chunkNo[s])]

\* The variant of the fan-out loops without the try around the callback: an
\* error raised by the callback of a passed client leaves the loop.
CallbackErrorUncaught(s, passed) == \E r \in passed : Raises(r, s)

\* `try: ... except Exception` around each callback in _on_pty_output and
\* _on_pty_exit: an error raised by the callback of a passed client is
\* logged and never leaves the loop.
CallbackErrorEscapes(s, passed) == FALSE

\* `for client_id in session.attached_clients` from the current position to
\* the next callback that suspends in a send, or to the end of the set.  The
\* set is iterated live, in an order the program does not choose: any
\* client not yet visited may come next, and clients whose callback does not
\* send (N) are passed without suspending.
OutputIterate(s, snap, visited) ==
    LET rem == attached[s] \ visited
        senders == {x \in rem : Sends(x, s)}
    IN  IF senders = {}
        THEN /\ fanSnap' = [fanSnap EXCEPT ![s] = {}]
             /\ fanVisited' = [fanVisited EXCEPT ![s] = {}]
             /\ IF CallbackErrorEscapes(s, rem) THEN ExitBegin(s) ELSE LoopAgain(s)
             /\ UNCHANGED outLog
        ELSE \E x \in senders, N \in SUBSET (rem \ senders) :
             IF CallbackErrorEscapes(s, N)
             THEN /\ fanSnap' = [fanSnap EXCEPT ![s] = {}]
                  /\ fanVisited' = [fanVisited EXCEPT ![s] = {}]
                  /\ ExitBegin(s)
                  /\ UNCHANGED outLog
             ELSE /\ outLog' = OutputCallback(outLog, x, s)
                  /\ fanSnap' = [fanSnap EXCEPT ![s] = snap]
                  /\ fanVisited' = [fanVisited EXCEPT ![s] = visited \cup N \cup {x}]
                  /\ pump' = [pump EXCEPT ![s] = "fanout"]
                  /\ pumpPend' = [pumpPend EXCEPT ![s] = 0]
                  /\ UNCHANGED << ptyRunning, metaStatus, index, seqCounter,
                                  exitCalls >>

\* _on_pty_output resumes after the out line is written and starts the
\* iteration over attached_clients.
PumpOutputWritten(s) ==
    /\ pump[s] = "out_append"
    /\ transcript' = WriteLine(transcript, s, pumpPend[s], "out")
    /\ OutputIterate(s, attached[s], {})
    /\ metaActivity' =
          LET stamped == MetaUpdateActivity(metaActivity, s)
          IN  IF pump'[s] = "exit_append"
              THEN MetaUpdateActivity(stamped, s) ELSE stamped
    /\ UNCHANGED << pend, metaDims, ptyDims, awVars, listVars, objVars, wsVars, metaError, metaPid, settings, limits, nextId, table, lock, ptyHandle, chunkNo,
                    escaped, attached, bound, conn, pc, arg, shTodo, ptyInput,
                    reqs, lastReply, exitPush, exitReply >>

\* The append of the out line fails (the aiofiles open or write raises
\* OSError): _on_pty_output has no handler around it, the error leaves it,
\* _read_loop's `except Exception` breaks the loop and _handle_exit runs.
PumpOutputAppendFailed(s) ==
    /\ pump[s] = "out_append"
    /\ escaped' = [escaped EXCEPT ![s] = TRUE]
    /\ ExitBegin(s)
    /\ metaActivity' = IF s \in table
                       THEN MetaUpdateActivity(metaActivity, s) ELSE metaActivity
    /\ UNCHANGED << pend, ptyDims, metaDims, awVars, listVars, objVars, wsVars, metaError, metaPid, settings, limits, nextId, table,
                    lock, ptyHandle, chunkNo, fanSnap, fanVisited, attached,
                    bound, conn, pc, arg, shTodo, transcript, ptyInput, reqs,
                    lastReply, outLog, exitPush, exitReply >>

\* The set iterator's test on each step: the set has the size it had when
\* the iteration began (else RuntimeError: Set changed size during iteration).
SetSizeChanged(s) == Cardinality(attached[s]) # Cardinality(fanSnap[s])

\* _on_pty_output resumes after a callback's send: the for statement asks
\* the set iterator for the next client.  A changed set size raises
\* RuntimeError outside the loop body's try: it leaves _on_pty_output, is
\* caught by _read_loop's `except Exception`, which breaks into _handle_exit.
PumpOutputResumed(s) ==
    /\ pump[s] = "fanout"
    /\ IF SetSizeChanged(s)
       THEN /\ escaped' = [escaped EXCEPT ![s] = TRUE]
            /\ fanSnap' = [fanSnap EXCEPT ![s] = {}]
            /\ fanVisited' = [fanVisited EXCEPT ![s] = {}]
            /\ ExitBegin(s)
            /\ UNCHANGED outLog
       ELSE /\ OutputIterate(s, fanSnap[s], fanVisited[s])
            /\ UNCHANGED escaped
    /\ metaActivity' = IF pump'[s] = "exit_append"
                       THEN MetaUpdateActivity(metaActivity, s) ELSE metaActivity
    /\ UNCHANGED << pend, metaDims, ptyDims, awVars, listVars, objVars, wsVars, metaError, metaPid, settings, limits, nextId, table, lock, ptyHandle, chunkNo,
                    attached, bound, conn, pc, arg, shTodo, transcript, ptyInput,
                    reqs, lastReply, exitPush, exitReply >>

\* `for client_id in list(session.attached_clients)` in _on_pty_exit, from
\* the current position to the next callback that suspends in a send, or to
\* the end of the snapshot.
ExitIterate(s, snap, visited) ==
    LET rem == snap \ visited
        senders == {x \in rem : Sends(x, s)}
    IN  IF senders = {}
        THEN /\ fanSnap' = [fanSnap EXCEPT ![s] = {}]
             /\ fanVisited' = [fanVisited EXCEPT ![s] = {}]
             /\ pump' = [pump EXCEPT ![s] = "done"]
             /\ UNCHANGED exitPush
        ELSE \E x \in senders, N \in SUBSET (rem \ senders) :
             IF CallbackErrorEscapes(s, N)
             THEN /\ fanSnap' = [fanSnap EXCEPT ![s] = {}]
                  /\ fanVisited' = [fanVisited EXCEPT ![s] = {}]
                  /\ pump' = [pump EXCEPT ![s] = "done"]
                  /\ UNCHANGED exitPush
             ELSE /\ exitPush' = [exitPush EXCEPT ![x][s] = @ + 1]
                  /\ fanSnap' = [fanSnap EXCEPT ![s] = snap]
                  /\ fanVisited' = [fanVisited EXCEPT ![s] = visited \cup N \cup {x}]
                  /\ pump' = [pump EXCEPT ![s] = "exit_fanout"]

\* _on_pty_exit resumes after the exited line is written and starts the
\* fan-out over the snapshot of attached_clients.
PumpExitWritten(s) ==
    /\ pump[s] = "exit_append"
    /\ transcript' = WriteLine(transcript, s, pumpPend[s], "exited")
    /\ pumpPend' = [pumpPend EXCEPT ![s] = 0]
    /\ ExitIterate(s, attached[s], {})
    /\ UNCHANGED << pend, metaDims, ptyDims, metaActivity, awVars, listVars, objVars, exitCalls, wsVars, metaError, metaPid, settings, limits, nextId, table, lock, ptyRunning, ptyHandle,
                    chunkNo, escaped, attached, bound, conn, pc, arg, shTodo,
                    metaStatus, index, seqCounter, ptyInput, reqs, lastReply,
                    outLog, exitReply >>

\* _on_pty_exit resumes after an exit callback's send.
PumpExitResumed(s) ==
    /\ pump[s] = "exit_fanout"
    /\ ExitIterate(s, fanSnap[s], fanVisited[s])
    /\ UNCHANGED << pend, metaDims, ptyDims, metaActivity, awVars, listVars, objVars, exitCalls, wsVars, metaError, metaPid, settings, limits, nextId, table, lock, ptyRunning, ptyHandle,
                    chunkNo, escaped, attached, bound, conn, pc, arg, pumpPend,
                    shTodo, metaStatus, index, seqCounter, transcript, ptyInput,
                    reqs, lastReply, outLog, exitReply >>

\* The variant of _read_loop that reaches _handle_exit also when cancelled.
CancelRunsExitToo == TRUE

\* _read_loop's `except EOFError` and `except Exception` do not catch
\* CancelledError: a cancelled read task never reaches _handle_exit.
CancelRunsExit == FALSE

\* The cancelled read task runs: CancelledError (a BaseException) passes
\* every `except Exception` and ends the task without _handle_exit.  A
\* transcript write that was in flight in the executor may or may not
\* reach the file.
PumpCancelled(s) ==
    /\ pump[s] \in {"cancelling", "cancel_out", "cancel_exit"}
    /\ exitCalls' = IF CancelRunsExit THEN [exitCalls EXCEPT ![s] = @ + 1]
                    ELSE exitCalls
    /\ pump' = [pump EXCEPT ![s] = "cancelled"]
    /\ pumpPend' = [pumpPend EXCEPT ![s] = 0]
    /\ fanSnap' = [fanSnap EXCEPT ![s] = {}]
    /\ fanVisited' = [fanVisited EXCEPT ![s] = {}]
    /\ \/ UNCHANGED transcript
       \/ /\ pump[s] = "cancel_out"
          /\ transcript' = WriteLine(transcript, s, pumpPend[s], "out")
       \/ /\ pump[s] = "cancel_exit"
          /\ transcript' = WriteLine(transcript, s, pumpPend[s], "exited")
    /\ UNCHANGED << pend, metaDims, ptyDims, metaActivity, awVars, listVars, objVars, wsVars, metaError, metaPid, settings, limits, nextId, table, lock, ptyRunning, ptyHandle,
                    chunkNo, escaped, attached, bound, conn, pc, arg, shTodo,
                    metaStatus, index, seqCounter, ptyInput, reqs, lastReply,
                    outLog, exitPush, exitReply >>

(***************************************************************************)
(* Specifications                                                          *)
(***************************************************************************)
\* Lifecycle scenarios: create, terminate, shutdown, natural exit and term.in
\* over two session ids, with MAX_SESSIONS = 1 so that the cap is reached.
Init == InitWith(1, MaxIds, 0, MaxRequests, "open")

Next ==
    \/ \E c \in Clients : HandleSessionCreate(c)
    \/ \E c \in Clients : CreateSessionAcquire(c)
    \/ \E c \in Clients : CreateSessionSpawnFailed(c)
    \/ \E c \in Clients : CreateSessionInserted(c)
    \/ \E c \in Clients : CreateSessionReplied(c)
    \/ \E c \in Clients, s \in NamedIds : HandleSessionTerminate(c, s)
    \/ \E t \in Callers : TerminateStopped(t)
    \/ \E c \in Clients : SessionTerminateReplied(c)
    \/ \E c \in Clients, s \in NamedIds, n \in InputSizes : HandleTermIn(c, s, n)
    \/ ShutdownStart
    \/ ShutdownNext
    \/ \E s \in Sessions : PumpEOF(s)
    \/ \E s \in Sessions : PumpExitWritten(s)
    \/ \E s \in Sessions : PumpExitResumed(s)
    \/ \E s \in Sessions : PumpCancelled(s)

Spec == Init /\ [][Next]_vars

\* Store scenarios: the operations that write meta.json and index.json
\* (create, terminate, natural exit, shutdown) with resize, rename and input.
NextStore ==
    \/ \E c \in Clients : HandleSessionCreate(c)
    \/ \E c \in Clients : CreateSessionAcquire(c)
    \/ \E c \in Clients : CreateSessionSpawnFailed(c)
    \/ \E c \in Clients : CreateSessionInserted(c)
    \/ \E c \in Clients : CreateSessionReplied(c)
    \/ \E c \in Clients, s \in NamedIds : HandleSessionTerminate(c, s)
    \/ \E t \in Callers : TerminateStopped(t)
    \/ \E c \in Clients : SessionTerminateReplied(c)
    \/ \E c \in Clients, s \in NamedIds, n \in InputSizes : HandleTermIn(c, s, n)
    \/ \E c \in Clients, s \in NamedIds, d \in ResizeInputs :
           HandleTermResize(c, s, d[1], d[2])
    \/ \E c \in Clients, s \in NamedIds, name \in RenameInputs :
           HandleSessionRename(c, s, name)
    \/ ShutdownStart
    \/ ShutdownNext
    \/ \E s \in Sessions : PumpEOF(s)
    \/ \E s \in Sessions : PumpExitWritten(s)
    \/ \E s \in Sessions : PumpExitResumed(s)
    \/ \E s \in Sessions : PumpCancelled(s)

SpecStore == Init /\ [][NextStore]_vars

\* Transcript scenarios: one session with output, attach, input, terminate
\* and natural exit.
InitIO == InitWith(1, 1, IoChunks, IoRequests, "open")

NextIO ==
    \/ \E c \in Clients : HandleSessionCreate(c)
    \/ \E c \in Clients : CreateSessionSpawnFailed(c)
    \/ \E c \in Clients : CreateSessionInserted(c)
    \/ \E c \in Clients : CreateSessionReplied(c)
    \/ \E c \in Clients, s \in NamedIds : HandleSessionAttach(c, s)
    \/ \E c \in Clients : SessionAttachReplied(c)
    \/ \E c \in Clients, s \in NamedIds : HandleSessionTerminate(c, s)
    \/ \E c \in Clients : TerminateStopped(c)
    \/ \E c \in Clients : SessionTerminateReplied(c)
    \/ \E c \in Clients, s \in NamedIds, n \in InputSizes : HandleTermIn(c, s, n)
    \/ \E s \in Sessions : PumpRead(s)
    \/ \E s \in Sessions : PumpEOF(s)
    \/ \E s \in Sessions : PumpOutputWritten(s)
    \/ \E s \in Sessions : PumpOutputResumed(s)
    \/ \E s \in Sessions : PumpExitWritten(s)
    \/ \E s \in Sessions : PumpExitResumed(s)
    \/ \E s \in Sessions : PumpCancelled(s)

SpecIO == InitIO /\ [][NextIO]_vars

\* Fan-out scenarios: one session with several chunks, while clients
\* connect, attach and disconnect.
InitFan == InitWith(1, 1, FanChunks, FanRequests, "new")

NextFan ==
    \/ \E c \in Clients : Connect(c)
    \/ \E c \in Clients : HelloSent(c)
    \/ \E c \in Clients : Disconnect(c)
    \/ \E c \in Clients : HandleSessionCreate(c)
    \/ \E c \in Clients : CreateSessionSpawnFailed(c)
    \/ \E c \in Clients : CreateSessionInserted(c)
    \/ \E c \in Clients : CreateSessionReplied(c)
    \/ \E c \in Clients, s \in NamedIds : HandleSessionAttach(c, s)
    \/ \E c \in Clients : SessionAttachReplied(c)
    \/ \E s \in Sessions : PumpRead(s)
    \/ \E s \in Sessions : PumpEOF(s)
    \/ \E s \in Sessions : PumpOutputWritten(s)
    \/ \E s \in Sessions : PumpOutputResumed(s)
    \/ \E s \in Sessions : PumpExitWritten(s)
    \/ \E s \in Sessions : PumpExitResumed(s)

SpecFan == InitFan /\ [][NextFan]_vars

\* Detach scenarios: one session whose clients attach, are detached one by
\* one or disconnect, while its PTY runs and exits.
NextDetach ==
    \/ \E c \in Clients : Disconnect(c)
    \/ \E c \in Clients, s \in NamedIds : DetachSession(c, s)
    \/ \E c \in Clients : HandleSessionCreate(c)
    \/ \E c \in Clients : CreateSessionSpawnFailed(c)
    \/ \E c \in Clients : CreateSessionInserted(c)
    \/ \E c \in Clients : CreateSessionReplied(c)
    \/ \E c \in Clients, s \in NamedIds : HandleSessionAttach(c, s)
    \/ \E c \in Clients : SessionAttachReplied(c)
    \/ \E s \in Sessions : PumpEOF(s)
    \/ \E s \in Sessions : PumpExitWritten(s)
    \/ \E s \in Sessions : PumpExitResumed(s)

SpecDetach == InitWith(1, 1, 0, DetachRequests, "open") /\ [][NextDetach]_vars

\* Resize scenarios: one session that is created, resized, terminated,
\* exits by itself or is shut down.
InitResize == InitWith(1, 1, 0, ResizeRequests, "open")

NextResize ==
    \/ \E c \in Clients : HandleSessionCreate(c)
    \/ \E c \in Clients : CreateSessionSpawnFailed(c)
    \/ \E c \in Clients : CreateSessionInserted(c)
    \/ \E c \in Clients : CreateSessionReplied(c)
    \/ \E c \in Clients, s \in NamedIds : HandleSessionTerminate(c, s)
    \/ \E t \in Callers : TerminateStopped(t)
    \/ \E c \in Clients : SessionTerminateReplied(c)
    \/ \E c \in Clients, s \in NamedIds, d \in ResizeInputs :
           HandleTermResize(c, s, d[1], d[2])
    \/ ShutdownStart
    \/ ShutdownNext
    \/ \E s \in Sessions : PumpEOF(s)
    \/ \E s \in Sessions : PumpExitWritten(s)
    \/ \E s \in Sessions : PumpExitResumed(s)
    \/ \E s \in Sessions : PumpCancelled(s)

SpecResize == InitResize /\ [][NextResize]_vars

\* Input-after-terminate scenarios: one session that is created, written
\* to, terminated by a client or by shutdown, or exits by itself.
InitTerm == InitWith(1, 1, 0, TermRequests, "open")

NextTerm ==
    \/ \E c \in Clients : HandleSessionCreate(c)
    \/ \E c \in Clients : CreateSessionSpawnFailed(c)
    \/ \E c \in Clients : CreateSessionInserted(c)
    \/ \E c \in Clients : CreateSessionReplied(c)
    \/ \E c \in Clients, s \in NamedIds : HandleSessionTerminate(c, s)
    \/ \E t \in Callers : TerminateStopped(t)
    \/ \E c \in Clients : SessionTerminateReplied(c)
    \/ \E c \in Clients, s \in NamedIds, n \in InputSizes : HandleTermIn(c, s, n)
    \/ ShutdownStart
    \/ ShutdownNext
    \/ \E s \in Sessions : PumpEOF(s)
    \/ \E s \in Sessions : PumpExitWritten(s)
    \/ \E s \in Sessions : PumpExitResumed(s)
    \/ \E s \in Sessions : PumpCancelled(s)

SpecTerm == InitTerm /\ [][NextTerm]_vars

\* Binding scenarios: one connection creates two sessions and attaches from
\* one to the other while both produce output and exit.
InitBind == InitWith(2, 2, BindChunks, BindRequests, "open")

\* The connections that send messages in the binding scenarios.
BindClients == {"c1"}

NextBind ==
    \/ \E c \in BindClients : HandleSessionCreate(c)
    \/ \E c \in BindClients : CreateSessionSpawnFailed(c)
    \/ \E c \in BindClients : CreateSessionInserted(c)
    \/ \E c \in BindClients : CreateSessionReplied(c)
    \/ \E c \in BindClients, s \in NamedIds : HandleSessionAttach(c, s)
    \/ \E c \in BindClients : SessionAttachReplied(c)
    \/ \E s \in Sessions : PumpRead(s)
    \/ \E s \in Sessions : PumpEOF(s)
    \/ \E s \in Sessions : PumpOutputWritten(s)
    \/ \E s \in Sessions : PumpOutputResumed(s)
    \/ \E s \in Sessions : PumpExitWritten(s)
    \/ \E s \in Sessions : PumpExitResumed(s)

SpecBind == InitBind /\ [][NextBind]_vars

\* Fault scenarios: one session with several chunks and a natural exit,
\* while a transcript append fails or the transport of an attached client
\* breaks.
InitFault == InitWith(1, 1, FaultChunks, FaultRequests, "open")

NextFault ==
    \/ \E c \in Clients : ConnectionBreaks(c)
    \/ \E c \in Clients : HandleSessionCreate(c)
    \/ \E c \in Clients : CreateSessionSpawnFailed(c)
    \/ \E c \in Clients : CreateSessionInserted(c)
    \/ \E c \in Clients : CreateSessionReplied(c)
    \/ \E c \in Clients, s \in NamedIds : HandleSessionAttach(c, s)
    \/ \E c \in Clients : SessionAttachReplied(c)
    \/ \E s \in Sessions : PumpRead(s)
    \/ \E s \in Sessions : PumpEOF(s)
    \/ \E s \in Sessions : PumpOutputWritten(s)
    \/ \E s \in Sessions : PumpOutputAppendFailed(s)
    \/ \E s \in Sessions : PumpOutputResumed(s)
    \/ \E s \in Sessions : PumpExitWritten(s)
    \/ \E s \in Sessions : PumpExitResumed(s)

SpecFault == InitFault /\ [][NextFault]_vars

(***************************************************************************)
(* One PtyProcess object on its own, driven through its public methods,    *)
(* with callbacks that record what they are given and return.              *)
(***************************************************************************)

\* The first chunk of _mock_read_loop.
WelcomeChunk ==
    << "Welcome to Copilot Terminal (Mock Mode)", "\r", "\n", "$", " " >>

\* f"{data}\r\n$ "
Echo(data) == data \o << "\r", "\n", "$", " " >>

\* The inputs written to the object (strings, as sequences of characters).
PtyInputs == { << "a" >>, << "b" >> }

\* The object has been spawned and its read loop started: from then on the
\* other methods are called on it.
Started == objPid = "pid" /\ objReadTask # "none"

\* create_pty_process: the factory picks the class; __init__ sets the fields.
CreatePtyProcess(use_mock) ==
    /\ objVariant = "none"
    /\ objVariant' = IF use_mock THEN "mock" ELSE "real"
    /\ UNCHANGED << managerVars, wsVars, awVars, listVars, exitCalls, attached,
                    bound, conn, pc, reqs, lastReply, objPid, objPty, objAlive,
                    objRunning, objExitCode, objReadTask, objInputBuffer,
                    objAccepted, objOutput, objReads, objWrites, objCalls >>

\* spawn: MockPtyProcess.spawn always succeeds and keeps _pty None;
\* PtyProcess.spawn sets _pty, _pid and _running, or fails and sets nothing.
Spawn(ok) ==
    /\ objVariant # "none"
    /\ objPid = "none"
    /\ IF objVariant = "mock"
       THEN /\ ok
            /\ objPid' = "pid"
            /\ objRunning' = TRUE
            /\ UNCHANGED << objPty, objAlive >>
       ELSE IF ok
            THEN /\ objPid' = "pid"
                 /\ objPty' = TRUE
                 /\ objAlive' = TRUE
                 /\ objRunning' = TRUE
            ELSE /\ objPid' = "failed"
                 /\ UNCHANGED << objPty, objAlive, objRunning >>
    /\ UNCHANGED << managerVars, wsVars, awVars, listVars, exitCalls, attached,
                    bound, conn, pc, reqs, lastReply, objVariant, objExitCode,
                    objReadTask, objInputBuffer, objAccepted, objOutput,
                    objReads, objWrites, objCalls >>

\* start_read_loop, called once after a successful spawn: the mock creates
\* its task unconditionally, the real one only with a handle and _running.
StartReadLoop ==
    /\ objPid = "pid"
    /\ objReadTask = "none"
    /\ objReadTask' = IF objVariant = "mock" THEN "start"
                      ELSE IF objPty /\ objRunning THEN "reading" ELSE "none"
    /\ objReadTask' # "none"
    /\ UNCHANGED << managerVars, wsVars, awVars, listVars, exitCalls, attached,
                    bound, conn, pc, reqs, lastReply, objVariant, objPid, objPty,
                    objAlive, objRunning, objExitCode, objInputBuffer,
                    objAccepted, objOutput, objReads, objWrites, objCalls >>

\* The child process ends on its own.
ChildExits ==
    /\ objVariant = "real"
    /\ objAlive
    /\ objAlive' = FALSE
    /\ UNCHANGED << managerVars, wsVars, awVars, listVars, exitCalls, attached,
                    bound, conn, pc, reqs, lastReply, objVariant, objPid, objPty,
                    objRunning, objExitCode, objReadTask, objInputBuffer,
                    objAccepted, objOutput, objReads, objWrites, objCalls >>

\* _handle_exit: _running = False, the exit code read from the handle if
\* there is one, then on_exit.
HandleExit ==
    /\ objRunning' = FALSE
    /\ objExitCode' = IF objPty THEN "exitstatus" ELSE objExitCode
    /\ objReadTask' = "finished"

\* _read_loop resumes with what the executor read: data goes to on_output,
\* an empty read sleeps; then the while test, and _handle_exit when it fails.
ReadLoopData(empty) ==
    /\ objReadTask = "reading"
    /\ objPty /\ objAlive
    /\ objReads < PtyChunks
    /\ objReads' = objReads + 1
    /\ objOutput' = IF empty THEN objOutput ELSE Append(objOutput, << "data" >>)
    /\ IF objRunning /\ objPty
       THEN UNCHANGED << objRunning, objExitCode, objReadTask >>
       ELSE HandleExit
    /\ UNCHANGED << managerVars, wsVars, awVars, listVars, exitCalls, attached,
                    bound, conn, pc, reqs, lastReply, objVariant, objPid, objPty,
                    objAlive, objInputBuffer, objAccepted, objWrites, objCalls >>

\* _read_pty raises: EOFError when the child is not alive, any other error
\* of the read while it is; both break out of the loop into _handle_exit.
ReadLoopBreaks ==
    /\ objReadTask = "reading"
    /\ HandleExit
    /\ UNCHANGED << managerVars, wsVars, awVars, listVars, exitCalls, attached,
                    bound, conn, pc, reqs, lastReply, objVariant, objPid, objPty,
                    objAlive, objInputBuffer, objAccepted, objOutput, objReads,
                    objWrites, objCalls >>

\* _mock_read_loop's first run: the welcome chunk, then the while test.
MockLoopStart ==
    /\ objReadTask = "start"
    /\ objOutput' = Append(objOutput, WelcomeChunk)
    /\ objReadTask' = IF objRunning THEN "sleep" ELSE "finished"
    /\ UNCHANGED << managerVars, wsVars, awVars, listVars, exitCalls, attached,
                    bound, conn, pc, reqs, lastReply, objVariant, objPid, objPty,
                    objAlive, objRunning, objExitCode, objInputBuffer,
                    objAccepted, objReads, objWrites, objCalls >>

\* _mock_read_loop wakes from asyncio.sleep(0.1): pops and echoes the oldest
\* buffered input if there is one, then the while test.
MockLoopWake ==
    /\ objReadTask = "sleep"
    /\ IF objInputBuffer # << >>
       THEN /\ objOutput' = Append(objOutput, Echo(Head(objInputBuffer)))
            /\ objInputBuffer' = Tail(objInputBuffer)
       ELSE UNCHANGED << objOutput, objInputBuffer >>
    /\ objReadTask' = IF objRunning THEN "sleep" ELSE "finished"
    /\ UNCHANGED << managerVars, wsVars, awVars, listVars, exitCalls, attached,
                    bound, conn, pc, reqs, lastReply, objVariant, objPid, objPty,
                    objAlive, objRunning, objExitCode, objAccepted, objReads,
                    objWrites, objCalls >>

\* The mock's write that buffers whatever the state of the object.
MockWriteAccepted(data) == TRUE

\* MockPtyProcess.write buffers the input only while _running.
MockWriteAccepts(data) == objRunning

\* write: the mock buffers the input while running; the real one hands it
\* to the child while it has a handle and is running.
Write(data) ==
    /\ Started
    /\ objWrites < PtyWrites
    /\ objWrites' = objWrites + 1
    /\ IF objVariant = "mock"
       THEN IF MockWriteAccepts(data)
            THEN /\ objInputBuffer' = Append(objInputBuffer, data)
                 /\ objAccepted' = Append(objAccepted, data)
            ELSE UNCHANGED << objInputBuffer, objAccepted >>
       ELSE /\ objAccepted' = IF objPty /\ objRunning
                              THEN Append(objAccepted, data) ELSE objAccepted
            /\ UNCHANGED objInputBuffer
    /\ UNCHANGED << managerVars, wsVars, awVars, listVars, exitCalls, attached,
                    bound, conn, pc, reqs, lastReply, objVariant, objPid, objPty,
                    objAlive, objRunning, objExitCode, objReadTask, objOutput,
                    objReads, objCalls >>

\* The fields after terminate(): the mock clears _running and sets the exit
\* code; the real one returns at once without a handle, else kills the
\* child if alive and clears _running.  _running = False stands inside the
\* try, after isalive() and terminate(force=True): when one of them raises,
\* the handler only logs and the flag stays.
TerminateFields(raises) ==
    IF objVariant = "mock"
    THEN [running |-> FALSE, alive |-> objAlive, exitCode |-> "mock_exit_code"]
    ELSE IF ~objPty
         THEN [running |-> objRunning, alive |-> objAlive, exitCode |-> objExitCode]
         ELSE [running |-> IF raises THEN objRunning ELSE FALSE,
               alive |-> IF raises THEN objAlive ELSE FALSE,
               exitCode |-> objExitCode]

\* terminate()
Terminate(raises) ==
    /\ Started
    /\ raises => (objVariant = "real" /\ objPty)
    /\ objCalls.terminate < PtyCalls
    /\ objCalls' = [objCalls EXCEPT !.terminate = @ + 1]
    /\ objRunning' = TerminateFields(raises).running
    /\ objAlive' = TerminateFields(raises).alive
    /\ objExitCode' = TerminateFields(raises).exitCode
    /\ UNCHANGED << managerVars, wsVars, awVars, listVars, exitCalls, attached,
                    bound, conn, pc, reqs, lastReply, objVariant, objPid, objPty,
                    objReadTask, objInputBuffer, objAccepted, objOutput,
                    objReads, objWrites >>

\* stop(): terminate(), then the read task, if any, is cancelled and awaited
\* (a task that has not ended takes the CancelledError at its await), then
\* _pty = None.
Stop(raises) ==
    /\ Started
    /\ raises => (objVariant = "real" /\ objPty)
    /\ objCalls.stop < PtyCalls
    /\ objCalls' = [objCalls EXCEPT !.stop = @ + 1]
    /\ objRunning' = TerminateFields(raises).running
    /\ objAlive' = TerminateFields(raises).alive
    /\ objExitCode' = TerminateFields(raises).exitCode
    /\ objReadTask' = IF objReadTask \in {"finished", "cancelled"}
                      THEN objReadTask ELSE "cancelled"
    /\ objPty' = FALSE
    /\ UNCHANGED << managerVars, wsVars, awVars, listVars, exitCalls, attached,
                    bound, conn, pc, reqs, lastReply, objVariant, objPid,
                    objInputBuffer, objAccepted, objOutput, objReads, objWrites >>

\* One PtyProcess object, real or mock, from the factory to stop().
NextPty ==
    \/ \E use_mock \in BOOLEAN : CreatePtyProcess(use_mock)
    \/ \E ok \in BOOLEAN : Spawn(ok)
    \/ StartReadLoop
    \/ ChildExits
    \/ \E empty \in BOOLEAN : ReadLoopData(empty)
    \/ ReadLoopBreaks
    \/ MockLoopStart
    \/ MockLoopWake
    \/ \E data \in PtyInputs : Write(data)
    \/ \E raises \in BOOLEAN : Terminate(raises)
    \/ \E raises \in BOOLEAN : Stop(raises)

SpecPty == InitWith(1, 1, 0, 0, "open") /\ [][NextPty]_vars

\* The event loop runs a task that is ready: the mock's read task gets its
\* first run, and wakes from each asyncio.sleep(0.1).
SpecPtyFair ==
    SpecPty /\ WF_vars(MockLoopStart) /\ WF_vars(MockLoopWake)

\* Read-pump scenarios: the read task of one session reads, fails, meets EOF
\* and runs the exit trampoline while clients attach and terminate and the
\* manager shuts down.
NextPump ==
    \/ \E c \in Clients : HandleSessionCreate(c)
    \/ \E c \in Clients : CreateSessionSpawnFailed(c)
    \/ \E c \in Clients : CreateSessionInserted(c)
    \/ \E c \in Clients : CreateSessionReplied(c)
    \/ \E c \in Clients, s \in NamedIds : HandleSessionAttach(c, s)
    \/ \E c \in Clients : SessionAttachReplied(c)
    \/ \E c \in Clients, s \in NamedIds : HandleSessionTerminate(c, s)
    \/ \E t \in Callers : TerminateStopped(t)
    \/ \E c \in Clients : SessionTerminateReplied(c)
    \/ ShutdownStart
    \/ ShutdownNext
    \/ \E s \in Sessions : PumpRead(s)
    \/ \E s \in Sessions : PumpEOF(s)
    \/ \E s \in Sessions : PumpOutputWritten(s)
    \/ \E s \in Sessions : PumpOutputAppendFailed(s)
    \/ \E s \in Sessions : PumpOutputResumed(s)
    \/ \E s \in Sessions : PumpExitWritten(s)
    \/ \E s \in Sessions : PumpExitResumed(s)
    \/ \E s \in Sessions : PumpCancelled(s)

SpecPump ==
    InitWith(1, 1, PumpChunks, PumpRequests, "open") /\ [][NextPump]_vars

\* List scenarios: sessions are created at any reading of the clock, fail to
\* spawn, exit or are terminated, and the one connection that acts lists them.
NextList ==
    \/ \E c \in {"c1"} : HandleSessionCreate(c)
    \/ \E c \in {"c1"} : CreateSessionSpawnFailed(c)
    \/ \E c \in {"c1"} : CreateSessionInserted(c)
    \/ \E c \in {"c1"} : CreateSessionReplied(c)
    \/ \E c \in {"c1"}, s \in NamedIds : HandleSessionTerminate(c, s)
    \/ \E t \in {"c1"} : TerminateStopped(t)
    \/ \E c \in {"c1"} : SessionTerminateReplied(c)
    \/ \E s \in Sessions : PumpEOF(s)
    \/ \E s \in Sessions : PumpExitWritten(s)
    \/ \E s \in Sessions : PumpExitResumed(s)
    \/ \E s \in Sessions : PumpCancelled(s)
    \/ \E c \in {"c1"} : HandleSessionList(c)
    \/ \E t \in 0..ListTicks : ClockSet(t)

SpecList == InitWith(ListIds, ListIds, 0, ListRequests, "open") /\ [][NextList]_vars

\* Atomic-write scenarios: documents are written to one target, writes fail
\* and the process crashes at any step of a write.
InitAtomic == InitWith(1, 1, 0, AwWrites, "open")

NextAtomic ==
    \/ \E d \in Docs : AtomicWriteBegin(d)
    \/ AtomicWriteChunk
    \/ AtomicWriteReplace
    \/ AtomicWriteFails
    \/ AtomicWriteCrash
    \/ AtomicWriteRestart

SpecAtomic == InitAtomic /\ [][NextAtomic]_vars

\* Receive-loop scenarios: connections are accepted and send frames of
\* every kind while the clock advances.
InitWs == InitWith(1, 1, 0, WsRequests, "new")

NextWs ==
    \/ \E c \in Clients : Connect(c)
    \/ \E c \in Clients : HelloSent(c)
    \/ \E c \in Clients : Disconnect(c)
    \/ \E c \in Clients, kind \in FrameKinds : ReceiveFrame(c, kind)
    \/ \E c \in Clients : ReplySent(c)
    \/ \E c \in Clients : RateReplySent(c)
    \/ \E c \in Clients : ReceiveLoopEnded(c)
    \/ Tick

SpecWs == InitWs /\ [][NextWs]_vars

(***************************************************************************)
(* Properties                                                              *)
(***************************************************************************)
\* C1: the number of sessions in the table whose PTY is running never
\* exceeds settings.MAX_SESSIONS, whatever creates, terminates, exits and
\* shutdown interleave.
C1_RunningWithinCap == running_session_count <= settings.MAX_SESSIONS

\* C1 happens: the cap is reached and a create was refused for it.
C1_Witness ==
    /\ running_session_count = settings.MAX_SESSIONS
    /\ \E c \in Clients : lastReply[c] = "error:MAX_SESSIONS_REACHED"

\* C2: every session that has a meta.json has exactly one entry in
\* index.json, and the two record the same status, at every point where a
\* task is suspended or idle (so after every operation as well).
C2_MetaIndexAgree ==
    \A s \in Sessions :
        LET entries == {i \in 1..Len(index) : index[i].sessionId = s}
        IN  IF metaStatus[s] = "none"
            THEN entries = {}
            ELSE /\ Cardinality(entries) = 1
                 /\ \A i \in entries : index[i].status = metaStatus[s]

\* C2 happens: a session that was renamed has been moved to exited by a
\* terminate (its terminated line is written), in both files.
C2_Witness ==
    \E s \in Sessions :
        /\ metaStatus[s] = "exited"
        /\ \E i \in 1..Len(transcript[s]) : transcript[s][i].kind = "terminated"
        /\ \E i \in 1..Len(index) :
               /\ index[i].sessionId = s
               /\ index[i].name = "n"
               /\ index[i].status = "exited"

\* C3: the lines of a session's transcript carry the seq values 1, 2, 3, ...
\* in file order, with no gap, duplicate or reordering.
C3_SeqInFileOrder ==
    \A s \in Sessions :
        \A i \in 1..Len(transcript[s]) : transcript[s][i].seq = i

\* C4 as stated: a connection is sent session.exited for one session at most
\* once, pushes of the exit fan-out and replies to session.terminate
\* counted together.
C4_ExitedAtMostOnce ==
    \A c \in Clients, s \in Sessions : exitPush[c][s] + exitReply[c][s] <= 1

\* C4 amended: the exit fan-out pushes session.exited to a connection at most
\* once per session; further session.exited messages are replies to the
\* connection's own session.terminate requests, one per terminated line
\* at most.
C4_ExitPushedAtMostOnce ==
    \A c \in Clients, s \in Sessions :
        /\ exitPush[c][s] <= 1
        /\ exitReply[c][s] <= Cardinality({i \in 1..Len(transcript[s]) :
                                              transcript[s][i].kind = "terminated"})

\* C4 happens: a connection was pushed session.exited by the natural exit
\* and then got it again as the reply to its own session.terminate.
C4_Witness ==
    \E c \in Clients, s \in Sessions :
        exitPush[c][s] = 1 /\ exitReply[c][s] >= 1

\* C5: the term.out messages a client receives for a session carry the
\* chunks in the order the PTY produced them: chunk numbers strictly
\* increase along the messages sent to one client.
C5_OutputInOrder ==
    \A c \in Clients, s \in Sessions :
        \A i, j \in 1..Len(outLog[c][s]) :
            i < j => outLog[c][s][i] < outLog[c][s][j]

\* C5 happens: a client that created the session and is still attached,
\* bound and connected has received both chunks.
C5_Witness ==
    \E c \in Clients, s \in Sessions :
        /\ Len(outLog[c][s]) = limits.chunks
        /\ limits.chunks >= 2
        /\ c \in attached[s]
        /\ Sends(c, s)

\* C6: a client attaching or detaching during the fan-out of a chunk raises
\* no error that leaves the output callback and ends the read pump.
C6_FanOutErrorContained == \A s \in Sessions : ~escaped[s]

\* C7: once a terminate of a session has completed and its read task has
\* finished, every other client that is attached and bound to the session
\* and was so while it ran (it received output) has been pushed
\* session.exited by the exit callbacks.
C7_OthersNotifiedOnTerminate ==
    \A s \in Sessions, x \in Clients :
        ( /\ PumpFinished(s)
          /\ \E i \in 1..Len(transcript[s]) : transcript[s][i].kind = "terminated"
          /\ x \in attached[s]
          /\ Sends(x, s)
          /\ outLog[x][s] # << >>
          /\ exitReply[x][s] = 0 )
        => exitPush[x][s] >= 1

\* C8: create_session, terminate_session and shutdown exclude one another:
\* at most one task is inside one of them at any time.
C8_LifecycleOpsExclusive ==
    Cardinality({t \in Callers :
                    pc[t] \in {"create_append", "create_fail_append",
                               "term_stop", "term_append"}}) <= 1

\* C9: at the step that completes shutdown the table is empty and the PTY
\* of every session that was ever inserted is stopped: not running, its
\* read task finished.
C9_ShutdownStopsEverything ==
    [][ (pc[SD] # "done" /\ pc'[SD] = "done")
        => /\ table' = {}
           /\ \A s \in Sessions :
                  pump'[s] # "none" => (~ptyRunning'[s] /\ PumpFinished(s)') ]_vars

\* C10: a term.in that names a session the connection is not bound to is
\* answered NOT_ATTACHED, whatever the session's state and the size of the
\* data, and writes nothing to a PTY or a transcript.
C10_UnboundInputRefused ==
    [][ \A c \in Clients, s \in NamedIds, n \in InputSizes :
            (HandleTermIn(c, s, n) /\ bound[c] # s)
            => /\ lastReply'[c] = "error:NOT_ATTACHED"
               /\ UNCHANGED << ptyInput, transcript, seqCounter >> ]_vars

\* C10 happens: a connection was refused while a session it is not bound
\* to is in the table and running.
C10_Witness ==
    \E c \in Clients, s \in Sessions :
        /\ lastReply[c] = "error:NOT_ATTACHED"
        /\ bound[c] # s
        /\ s \in table
        /\ ptyRunning[s]

\* C11: send_input validates size, then known session, then running: a
\* term.in on the connection's bound session is answered INPUT_TOO_LARGE
\* when the data is oversized, whatever the session's state; else
\* SESSION_NOT_FOUND when the id is not in the table; else
\* SESSION_NOT_RUNNING when its PTY is not running; else it is accepted
\* without a reply.  The reply is a single code.
C11_SendInputOrder ==
    [][ \A c \in Clients, s \in NamedIds, n \in InputSizes :
            (HandleTermIn(c, s, n) /\ bound[c] = s)
            => lastReply'[c] =
                 IF n > MAX_INPUT_CHARS_PER_MESSAGE THEN "error:INPUT_TOO_LARGE"
                 ELSE IF s \notin table THEN "error:SESSION_NOT_FOUND"
                 ELSE IF ~ptyRunning[s] THEN "error:SESSION_NOT_RUNNING"
                 ELSE "none" ]_vars

\* C11 happens: oversized data was refused for its size on a connection
\* whose bound session is in the table but no longer running.
C11_Witness ==
    \E c \in Clients, s \in Sessions :
        /\ bound[c] = s
        /\ s \in table /\ ~ptyRunning[s]
        /\ lastReply[c] = "error:INPUT_TOO_LARGE"

InBounds(d) ==
    /\ MIN_COLS <= d[1] /\ d[1] <= MAX_COLS
    /\ MIN_ROWS <= d[2] /\ d[2] <= MAX_ROWS

\* C13 as stated: for every session in the table resize_session succeeds
\* exactly when the dimensions are within bounds, and on success the PTY
\* (what get_session reports) and meta.json hold the requested values.
C13_ResizeIffInBounds ==
    [][ \A c \in Clients, s \in Sessions, d \in ResizeInputs :
            (HandleTermResize(c, s, d[1], d[2]) /\ s \in table)
            => /\ (lastReply'[c] = "none") <=> InBounds(d)
               /\ lastReply'[c] = "none"
                    => ptyDims'[s] = d /\ metaDims'[s] = d ]_vars

\* C13 amended: for a session in the table, out-of-bounds dimensions are
\* refused with INVALID_RESIZE; in-bounds dimensions on a PTY that is not
\* running are refused with RESIZE_FAILED; in-bounds dimensions on a running
\* PTY succeed unless the PTY's own resize fails (RESIZE_FAILED); on success
\* the PTY and meta.json hold the requested values.
C13_ResizeIffInBoundsAndRunning ==
    [][ \A c \in Clients, s \in Sessions, d \in ResizeInputs :
            (HandleTermResize(c, s, d[1], d[2]) /\ s \in table)
            => /\ ~InBounds(d) => lastReply'[c] = "error:INVALID_RESIZE"
               /\ (InBounds(d) /\ ~ptyRunning[s])
                    => lastReply'[c] = "error:RESIZE_FAILED"
               /\ (InBounds(d) /\ ptyRunning[s])
                    => lastReply'[c] \in {"none", "error:RESIZE_FAILED"}
               /\ lastReply'[c] = "none"
                    => ptyDims'[s] = d /\ metaDims'[s] = d ]_vars

\* C13 happens: a resize of a running session in the table succeeded, and
\* the PTY and meta.json hold dimensions other than the initial ones.
C13_Witness ==
    \E c \in Clients, s \in Sessions :
        /\ s \in table /\ ptyRunning[s]
        /\ lastReply[c] = "none"
        /\ ptyDims[s] = << MAX_COLS, MAX_ROWS >>
        /\ metaDims[s] = << MAX_COLS, MAX_ROWS >>

\* C14: for every session the PTY's cols and rows lie within the
\* configured bounds, and the dimensions in meta.json equal the PTY's, in
\* every state (so after every resize_session call).
C14_DimsWithinBounds ==
    \A s \in Sessions :
        metaStatus[s] # "none"
        => /\ InBounds(ptyDims[s])
           /\ metaDims[s] = ptyDims[s]

\* C14 happens: after a successful resize to the largest dimensions a later
\* request beyond them was refused, the session holding the largest ones.
C14_Witness ==
    \E c \in Clients, s \in Sessions :
        /\ s \in table
        /\ lastReply[c] = "error:INVALID_RESIZE"
        /\ ptyDims[s] = << MAX_COLS, MAX_ROWS >>
        /\ metaDims[s] = ptyDims[s]

\* C15: a rejected resize_session leaves every session's PTY dimensions
\* and persisted dimensions as they were; out-of-bounds dimensions yield
\* INVALID_RESIZE also for an unknown id, in-bounds dimensions for an
\* unknown id yield SESSION_NOT_FOUND, and the only other error is
\* RESIZE_FAILED.
C15_RejectedResizeNoEffect ==
    [][ \A c \in Clients, s \in NamedIds, d \in ResizeInputs :
            HandleTermResize(c, s, d[1], d[2])
            => /\ ~InBounds(d) => lastReply'[c] = "error:INVALID_RESIZE"
               /\ (InBounds(d) /\ s \notin table)
                    => lastReply'[c] = "error:SESSION_NOT_FOUND"
               /\ lastReply'[c] \in { "none", "error:INVALID_RESIZE",
                                      "error:SESSION_NOT_FOUND",
                                      "error:RESIZE_FAILED" }
               /\ lastReply'[c] # "none"
                    => UNCHANGED << ptyDims, metaDims >> ]_vars

\* C15 happens: a session was resized away from its initial dimensions, and a
\* later resize of it failed in the PTY, the dimensions staying as resized.
C15_Witness ==
    \E c \in Clients, s \in Sessions :
        /\ s \in table
        /\ lastReply[c] = "error:RESIZE_FAILED"
        /\ ptyDims[s] = << MIN_COLS, MIN_ROWS >>
        /\ metaDims[s] = << MIN_COLS, MIN_ROWS >>

\* C16: attach_session for an id that is not in the table replies
\* SESSION_NOT_FOUND, with or without a meta.json for that id, and spawns
\* nothing, inserts nothing in the table, adds no client to an attached set
\* and appends (or schedules) no transcript event.
C16_AttachUnknownRefused ==
    [][ \A c \in Clients, s \in NamedIds :
            (HandleSessionAttach(c, s) /\ s \notin table)
            => /\ lastReply'[c] = "error:SESSION_NOT_FOUND"
               /\ pc'[c] = "idle"
               /\ UNCHANGED << table, nextId, ptyRunning, ptyHandle, pump,
                               attached, bound, seqCounter, pend,
                               transcript >> ]_vars

\* C16 happens: an attach was refused for an id that has a meta.json on disk
\* but is not in the table (its spawn failed), and nobody is attached to it.
C16_Witness ==
    \E c \in Clients, s \in Sessions :
        /\ lastReply[c] = "error:SESSION_NOT_FOUND"
        /\ metaStatus[s] # "none"
        /\ s \notin table
        /\ pc[c] = "idle"
        /\ \A d \in Clients : pc[d] = "idle"
        /\ attached[s] = {}

\* terminate_session(s) has completed: its terminated line is in the
\* transcript (the last thing it does before it returns).
TerminateCompleted(s) ==
    \E i \in 1..Len(transcript[s]) : transcript[s][i].kind = "terminated"

C18_OnlyBoundSessionDelivered ==
    [][ \A c \in Clients, s \in Sessions :
            (outLog'[c][s] # outLog[c][s] \/ exitPush'[c][s] # exitPush[c][s])
            => bound[c] = s /\ conn[c] = "open" ]_vars

\* C18 happens: a connection attached to B after A, and is still a member
\* of A's attached set; A produced a chunk and exited and the connection got
\* neither, while it got B's chunk.
C18_Witness ==
    \E c \in Clients, A \in Sessions, B \in Sessions :
        /\ A # B
        /\ c \in attached[A] /\ c \in attached[B]
        /\ bound[c] = B
        /\ lastReply[c] = "session.attached:running"
        /\ chunkNo[A] = 1 /\ pump[A] = "done" /\ A \in table
        /\ outLog[c][A] = << >> /\ exitPush[c][A] = 0
        /\ outLog[c][B] # << >>

\* C19: after an I/O failure of the append of an out event the session goes
\* on: its PTY is still reported running, the read pump is back at its
\* read, and meta.json and index.json do not mark the session exited.
C19_AppendFailureKeepsSession ==
    [][ \A s \in Sessions :
            PumpOutputAppendFailed(s)
            => /\ ptyRunning'[s]
               /\ pump'[s] \in {"fanout", "read"}
               /\ metaStatus'[s] = metaStatus[s]
               /\ index' = index ]_vars

\* The clients of s that the fan-out in progress has not passed yet and
\* whose callback would send.
WaitingSenders(s, snap) ==
    LET visited == IF pump[s] \in {"fanout", "exit_fanout"}
                   THEN fanVisited[s] ELSE {}
    IN  {c \in snap \ visited : Sends(c, s)}

C21_SchemaViolationInvalidMessage ==
    [][\A c \in Clients :
          ReceiveFrame(c, "schema")
          => /\ lastReply'[c] = "error:INVALID_MESSAGE"
             /\ ~ClosesAfter(lastReply'[c])
             /\ UNCHANGED managerVars]_vars

\* The replies that are errors, one per code of ErrorCodes.
ErrorReplies ==
    { "error:INVALID_MESSAGE", "error:UNKNOWN_MESSAGE_TYPE",
      "error:MAX_SESSIONS_REACHED", "error:SESSION_NOT_FOUND",
      "error:SPAWN_FAILED", "error:INPUT_TOO_LARGE", "error:INVALID_RESIZE",
      "error:INTERNAL_ERROR", "error:RATE_LIMIT_EXCEEDED", "error:NOT_ATTACHED" }

\* C22: the server ends a receive loop by itself only after it closed with
\* 1008 or 1011; a frame that is not JSON, not an object or without a type
\* gets an error reply and the connection stays open for the next message.
C22_LoopEndsOnlyAfterClose ==
    [][\A c \in Clients :
          /\ (conn[c] = "open" /\ conn'[c] = "closed" /\ ~Disconnect(c))
             => closeCode[c] \in {1008, 1011}
          /\ \A kind \in {"not_json", "not_object", "no_type"} :
                ReceiveFrame(c, kind)
                => /\ lastReply'[c] \in ErrorReplies
                   /\ conn'[c] = "open"]_vars

\* C23: a frame of an unknown type is answered UNKNOWN_MESSAGE_TYPE while
\* the channel is not yet closed; the close with 1008 comes only after the
\* send of that error; and once the error is the reply, the connection
\* receives (and so dispatches) no further message and ends closed with 1008.
C23_UnknownTypeRepliedThenClosed ==
    [][\A c \in Clients :
          /\ ReceiveFrame(c, "unknown_type")
             => /\ lastReply'[c] = "error:UNKNOWN_MESSAGE_TYPE"
                /\ pc'[c] = "reply_send"
                /\ closeCode'[c] = 0
                /\ conn'[c] = "open"
          /\ (closeCode[c] # 1008 /\ closeCode'[c] = 1008)
             => /\ pc[c] = "reply_send"
                /\ lastReply[c] = "error:UNKNOWN_MESSAGE_TYPE"
          /\ lastReply[c] = "error:UNKNOWN_MESSAGE_TYPE"
             => /\ recvTimes'[c] = recvTimes[c]
                /\ lastReply'[c] = lastReply[c]
                /\ (pc'[c] = "idle" => conn'[c] = "closed" /\ closeCode'[c] = 1008)]_vars

\* A connection was closed with 1008 after the error, with messages the
\* client could still have sent.
C23_Witness ==
    \E c \in Clients :
        /\ conn[c] = "closed"
        /\ closeCode[c] = 1008
        /\ lastReply[c] = "error:UNKNOWN_MESSAGE_TYPE"
        /\ Len(recvTimes[c]) = 2
        /\ reqs < limits.requests

\* The messages of a connection received in the window that ends at time t.
ReceivedInWindow(c, t) ==
    Len(SelectSeq(recvTimes[c], LAMBDA x : x > t - RateWindow /\ x <= t))

\* C24: a connection is answered RATE_LIMIT_EXCEEDED only when it sent more
\* than the maximum in some rolling window, and a message that is the
\* (maximum + 1)-th of its window is not dispatched.
C24_RateLimitedIffOverMax ==
    [][\A c \in Clients :
          /\ lastReply'[c] = "error:RATE_LIMIT_EXCEEDED"
             => \E t \in 0..WsTicks : ReceivedInWindow(c, t) > RateMax
          /\ \A kind \in FrameKinds :
                ReceiveFrame(c, kind) => ReceivedInWindow(c, now) < RateMax]_vars

\* The entries of index.json for session s.
IndexEntriesOf(idx, s) == {i \in 1..Len(idx) : idx[i].sessionId = s}

\* C25: when the spawn fails, create_session returns SPAWN_FAILED with
\* meta.json at status exited, pid null, error.code SPAWN_FAILED, one index
\* entry at status exited, a transcript that is the single line spawn_failed
\* with seq 1, the session not in the table, no read task, the PTY not
\* running; neither step of the failing call changes the table, the read
\* tasks or the running-session count.
C25_SpawnFailureState ==
    [][\A c \in Clients :
          /\ CreateSessionSpawnFailed(c)
             => LET s == arg[c] IN
                /\ lastReply'[c] = "error:SPAWN_FAILED"
                /\ metaStatus'[s] = "exited"
                /\ metaPid'[s] = "null"
                /\ metaError'[s] = "SPAWN_FAILED"
                /\ Cardinality(IndexEntriesOf(index', s)) = 1
                /\ \A i \in IndexEntriesOf(index', s) : index'[i].status = "exited"
                /\ transcript'[s] = << Line(1, "spawn_failed") >>
                /\ s \notin table'
                /\ pump'[s] = "none"
                /\ ~ptyRunning'[s]
                /\ running_session_count' = running_session_count
                /\ UNCHANGED << table, pump >>
          /\ (pc[c] # "create_fail_append" /\ pc'[c] = "create_fail_append")
             => /\ running_session_count' = running_session_count
                /\ UNCHANGED << table, pump >>]_vars

\* A create failed at the spawn while another session was running.
C25_Witness ==
    \E c \in Clients, s \in Sessions :
        /\ lastReply[c] = "error:SPAWN_FAILED"
        /\ arg[c] = s
        /\ metaError[s] = "SPAWN_FAILED"
        /\ transcript[s] # << >>
        /\ running_session_count = 1

\* C26: the cleanup of a connection leaves its client id in no session's
\* attached set, without callbacks, out of the connection table and without
\* rate-limiter timestamps, and it changes no PTY, no read task, no stored
\* status and not the table; afterwards the client stays detached and is
\* sent nothing.
C26_CleanupDetachesAndKeepsSessions ==
    [][\A c \in Clients :
          /\ Disconnect(c)
             => /\ \A s \in Sessions : c \notin attached'[s]
                /\ ~CallbackRegistered(c)'
                /\ ~InConnectionTable(c)'
                /\ \A s \in Sessions : ~Sends(c, s)'
                /\ rateTimes'[c] = << >>
                /\ UNCHANGED << ptyRunning, ptyHandle, pump, table, metaStatus,
                                index, transcript >>
          /\ conn[c] = "closed"
             => /\ conn'[c] = "closed"
                /\ \A s \in Sessions : c \notin attached'[s]
                /\ outLog'[c] = outLog[c]
                /\ exitPush'[c] = exitPush[c]]_vars

\* A connection that was attached to a session and had used the rate
\* limiter was cleaned up, and the session runs on.
C26_Witness ==
    \E c \in Clients, s \in Sessions :
        /\ conn[c] = "closed"
        /\ bound[c] = s
        /\ s \in table
        /\ ptyRunning[s]
        /\ pump[s] # "none"
        /\ outLog[c][s] # << >>

\* A read of the target yields what it yielded when the write began or the
\* document of the write, and the target is one of the two whole files.
TargetIsOldOrNew ==
    /\ ReadJsonFile(awTarget) \in {ReadJsonFile(awDoc.old), ReadOk(awDoc.new)}
    /\ ReadJsonFile(awTarget).kind # "malformed"
    /\ awTarget \in {awDoc.old, [exists |-> TRUE, text |-> Serialize(awDoc.new)]}

\* C27: at every step of a write, and after a crash at any step (the temp
\* file created, partly or wholly written, not yet renamed), a read of the
\* target yields the complete document from before the write or the complete
\* new one, never a partial text; and when atomic_write_json returns, a read
\* of the target yields the document written.
C27_AtomicWriteCrashAtomic ==
    [][/\ TargetIsOldOrNew'
       /\ (awPc' \in {"writing", "crashed"}) => awTarget' = awDoc'.old
       /\ AtomicWriteReplace => ReadJsonFile(awTarget') = ReadOk(awDoc.new)]_vars

\* The process crashed with a partly written temp file, over a target that
\* held another document.
C27_Witness ==
    /\ awPc = "crashed"
    /\ awTemp.exists
    /\ Len(awTemp.text) \in 1..3
    /\ awTarget.exists
    /\ ReadJsonFile(awTarget).kind = "doc"
    /\ ReadJsonFile(awTarget).doc \in Docs
    /\ ReadJsonFile(awTarget).doc # awDoc.new

\* C28: a create_session that takes the lock while the running-session
\* count is at or above MAX_SESSIONS returns MAX_SESSIONS_REACHED and changes
\* nothing: no id is allocated, no meta.json, index entry or transcript line
\* is written, no PTY is spawned, no read task started, and the table, the
\* attached sets and the binding are as before; the lock is free again.
C28_AtCapacityChangesNothing ==
    [][\A c \in Clients :
          ( /\ HandleSessionCreate(c) \/ CreateSessionAcquire(c)
            /\ pc'[c] # "create_wait"
            /\ running_session_count >= settings.MAX_SESSIONS )
          => /\ lastReply'[c] = "error:MAX_SESSIONS_REACHED"
             /\ pc'[c] = "idle"
             /\ lock' = "free"
             /\ UNCHANGED << nextId, table, metaStatus, metaError, metaPid,
                             metaDims, index, transcript, seqCounter,
                             ptyRunning, ptyHandle, pump, attached, bound >>]_vars

\* A create was refused at capacity while an id was still free.
C28_Witness ==
    \E c \in Clients :
        /\ lastReply[c] = "error:MAX_SESSIONS_REACHED"
        /\ running_session_count >= settings.MAX_SESSIONS
        /\ nextId <= limits.ids
        /\ lock = "free"

\* C29: a handler that raises is answered INTERNAL_ERROR: the exception does
\* not leave dispatch (the frame gets a reply and the connection stays
\* open), and after the reply is sent the receive loop goes on, closing
\* nothing.
C29_HandlerErrorIsInternalError ==
    [][\A c \in Clients :
          /\ DispatchResult("session.list", TRUE) = "error:INTERNAL_ERROR"
          /\ ReceiveFrame(c, "session.list")
             => /\ lastReply'[c] \in {"session.list.result", "error:INTERNAL_ERROR"}
                /\ pc'[c] = "reply_send"
                /\ conn'[c] = "open"
          /\ (lastReply[c] = "error:INTERNAL_ERROR" /\ ReplySent(c))
             => /\ conn'[c] = "open"
                /\ closeCode'[c] = 0
                /\ pc'[c] \in {"idle", "rate_send"}]_vars

\* A handler failed, the error was sent, and the connection is back in
\* receive_text with a message the client can still send.
C29_Witness ==
    \E c \in Clients :
        /\ lastReply[c] = "error:INTERNAL_ERROR"
        /\ conn[c] = "open"
        /\ pc[c] = "idle"
        /\ closeCode[c] = 0
        /\ reqs < limits.requests

\* C30: every accepted connection is sent server.hello with protocolVersion
\* 1 exactly once, and no reply, term.out or session.exited goes to a
\* connection in a step that starts before its hello was sent.
C30_HelloFirstAndOnce ==
    [][\A c \in Clients :
          /\ Len(helloSent'[c]) <= 1
          /\ conn'[c] # "new" => helloSent'[c] = << 1 >>
          /\ conn'[c] = "new" => helloSent'[c] = << >>
          /\ ( \/ lastReply'[c] # lastReply[c]
               \/ outLog'[c] # outLog[c]
               \/ exitPush'[c] # exitPush[c]
               \/ exitReply'[c] # exitReply[c] )
             => helloSent[c] = << 1 >>]_vars

\* A connection got its hello, then a reply and output, while the other
\* connection has not been accepted yet.
C30_Witness ==
    \E c \in Clients, d \in Clients, s \in Sessions :
        /\ helloSent[c] = << 1 >>
        /\ lastReply[c] # "none"
        /\ outLog[c][s] # << >>
        /\ conn[d] = "new"
        /\ helloSent[d] = << >>

\* C31: a session.list that succeeds returns exactly the entries of
\* index.json (each entry once, nothing else), the index holds one entry per
\* session id ever allocated (running, exited, terminated or failed to
\* spawn), and the entries come ordered by createdAt descending.
C31_ListIsIndexSortedDescending ==
    [][\A c \in Clients :
          (HandleSessionList(c) /\ lastReply'[c] = "session.list.result")
          => LET L == listed'[c] IN
             /\ Len(L) = Len(index)
             /\ {L[i] : i \in 1..Len(L)} = {index[i] : i \in 1..Len(index)}
             /\ \A s \in 1..(nextId - 1) :
                   Cardinality({i \in 1..Len(L) : L[i].sessionId = s}) = 1
             /\ \A i, j \in 1..Len(L) : i < j => L[i].createdAt >= L[j].createdAt]_vars

\* A list of two sessions, one exited or failed, that were added to the
\* index oldest first, so that the list is not in file order.
C31_Witness ==
    \E c \in Clients :
        /\ Len(listed[c]) = 2
        /\ listed[c] # index
        /\ listed[c][1].createdAt > listed[c][2].createdAt
        /\ \E i \in 1..2 : listed[c][i].status = "exited"
        /\ \E i \in 1..2 : listed[c][i].status = "running"

\* No operation and no trampoline is under way: every handler and the
\* shutdown are idle, the lock is free, and every read task is waiting in
\* its read, finished or not started.
Quiescent ==
    /\ \A t \in Callers : pc[t] \in {"idle", "done"}
    /\ lock = "free"
    /\ \A s \in Sessions : pump[s] \in {"none", "read", "done", "cancelled"}

\* C32: with no operation or trampoline under way, meta.json of every
\* session created says exited exactly when its PTY is not running
\* (terminated by exit, read error, terminate or shutdown, or never spawned).
C32_StatusExitedIffPtyStopped ==
    Quiescent =>
        \A s \in 1..(nextId - 1) :
            (metaStatus[s] = "exited") <=> ~ptyRunning[s]

\* C33: the exit callback of a session is invoked at most once, whatever
\* the interleaving of EOF, a read-loop error, terminate and shutdown.
C33_ExitCallbackAtMostOnce == \A s \in Sessions : exitCalls[s] <= 1

\* The exit callback ran after an error in the read loop, and the session
\* was terminated afterwards, its finished read task cancelled again.
C33_Witness ==
    \E s \in Sessions :
        /\ exitCalls[s] = 1
        /\ escaped[s]
        /\ \E i \in 1..Len(transcript[s]) : transcript[s][i].kind = "terminated"

\* C34: terminate and stop are idempotent, for the real and the mock
\* PtyProcess: a second call leaves isRunning, exitCode, the read task and
\* the pty handle as they were; and every stop ends with isRunning false,
\* the read task ended and the handle released.
C34_TerminateStopIdempotent ==
    [][ /\ \A method \in {"terminate", "stop"} :
              (objCalls'[method] = objCalls[method] + 1 /\ objCalls[method] >= 1)
              => UNCHANGED << objRunning, objExitCode, objReadTask, objPty >>
        /\ objCalls'.stop = objCalls.stop + 1 =>
              /\ ~objRunning'
              /\ objReadTask' \in {"finished", "cancelled"}
              /\ ~objPty' ]_vars

\* C35: when the exit trampoline pushes session.exited for a session to a
\* client, meta.json and the index entry of the session already say exited
\* and the transcript already holds the exited lifecycle line.
C35_ExitedPersistedBeforePush ==
    [][\A c \in Clients, s \in Sessions :
          exitPush'[c][s] > exitPush[c][s]
          => /\ metaStatus[s] = "exited"
             /\ metaStatus'[s] = "exited"
             /\ IndexEntriesOf(index, s) # {}
             /\ \A i \in IndexEntriesOf(index, s) : index[i].status = "exited"
             /\ index' = index
             /\ \E i \in 1..Len(transcript'[s]) :
                   transcript'[s][i].kind = "exited"]_vars

\* The trampoline has pushed session.exited to both the creator and a
\* client that attached later.
C35_Witness ==
    \E s \in Sessions : \A c \in Clients : exitPush[c][s] = 1

\* What the mock has emitted is the welcome chunk followed by the echoes of
\* the first k accepted inputs, one chunk each, in the order accepted.
EmittedIsWelcomeThenEchoes ==
    \/ objOutput = << >>
    \/ \E k \in 0..Len(objAccepted) :
          objOutput = << WelcomeChunk >>
                         \o [i \in 1..k |-> Echo(objAccepted[i])]

\* C36: the mock read pump emits the welcome chunk first and then exactly
\* one chunk input + "\r\n$ " per accepted write, in the order the writes
\* were accepted; a write made when the mock is no longer running is not
\* buffered, so never echoed; and every accepted write is eventually echoed
\* unless the mock is terminated first.
C36_MockEchoesAcceptedWritesInOrder ==
    /\ [](objVariant = "mock" => EmittedIsWelcomeThenEchoes)
    /\ [][\A data \in PtyInputs :
             (objVariant = "mock" /\ ~objRunning /\ Write(data))
             => /\ objInputBuffer' = objInputBuffer
                /\ objAccepted' = objAccepted]_vars
    /\ \A i \in 1..PtyWrites :
          (objVariant = "mock" /\ Len(objAccepted) >= i)
          ~> (Len(objOutput) >= i + 1 \/ ~objRunning)

\* Two writes were accepted and echoed after the welcome chunk, "b" before
\* "a", and a third write made after terminate was dropped.
C36_Witness ==
    /\ objVariant = "mock"
    /\ objWrites = 3
    /\ objAccepted = << << "b" >>, << "a" >> >>
    /\ objOutput = << WelcomeChunk, Echo(<< "b" >>), Echo(<< "a" >>) >>
    /\ ~objRunning
    /\ objInputBuffer = << >>

\* What a detach must leave alone: the table, the PTYs (running flag,
\* handle, dimensions, read task), meta.json, the index and the transcripts.
DetachFrame ==
    UNCHANGED << table, ptyRunning, ptyHandle, ptyDims, pump, metaStatus,
                 metaDims, metaActivity, metaError, metaPid, index, seqCounter,
                 transcript, bound >>

\* C37: detach_session and detach_all_sessions only remove the client id
\* from attached_clients: the table, the PTYs, meta.json, the index and the
\* transcripts stay as they are, no other client is detached, and an unknown
\* session id or a client that is not attached changes nothing.
C37_DetachOnlyRemovesClient ==
    [][\A c \in Clients :
          /\ \A s \in NamedIds :
                DetachSession(c, s)
                => /\ DetachFrame
                   /\ \A x \in Sessions :
                         attached'[x] = IF x = s /\ x \in table
                                        THEN attached[x] \ {c} ELSE attached[x]
                   /\ (s \notin table \/ c \notin attached[s])
                      => attached' = attached
          /\ Disconnect(c)
             => /\ DetachFrame
                /\ \A x \in Sessions :
                      attached'[x] = IF x \in table
                                     THEN attached[x] \ {c} ELSE attached[x]]_vars

\* A client was detached from the running session it created while another
\* client stays attached: its connection is open and still bound.
C37_Witness ==
    \E s \in Sessions, c, d \in Clients :
        /\ s \in table
        /\ ptyRunning[s]
        /\ conn[c] = "open"
        /\ bound[c] = s
        /\ c \notin attached[s]
        /\ d \in attached[s]

\* C38: every session.created reply reports session.status running, also
\* when the child exits while handle_session_create is suspended in
\* attach_session, before the reply is built.
C38_CreatedReplySaysRunning ==
    [][\A c \in Clients :
          CreateSessionReplied(c) => lastReply'[c] = "session.created:running"]_vars

\* C39: once a connection has been sent session.exited for a session (as
\* the reply to its session.terminate or as the push of the exit trampoline)
\* it is never sent another term.out for that session.
C39_NoOutputAfterExited ==
    [][\A c \in Clients, s \in Sessions :
          exitReply[c][s] + exitPush[c][s] >= 1
          => outLog'[c][s] = outLog[c][s]]_vars

\* A client that had received output of the session was sent session.exited
\* as its terminate reply after stop() cancelled the read task, and another
\* client received output as well.
C39_Witness ==
    \E s \in Sessions, c, d \in Clients :
        /\ c # d
        /\ exitReply[c][s] = 1
        /\ outLog[c][s] # << >>
        /\ outLog[d][s] # << >>
        /\ pump[s] = "cancelled"

\* The client created the session: its handler is suspended in attach_session
\* or its last reply is the session.created of that session.
IsCreator(c, s) ==
    /\ arg[c] = s
    /\ \/ pc[c] = "create_attach_append"
       \/ lastReply[c] \in {"session.created:running", "session.created:exited"}

\* The chunk is among the term.out messages sent to the client for the session.
WasSent(log, c, s, chunk) == \E i \in 1..Len(log[c][s]) : log[c][s][i] = chunk

\* The step ends the fan-out of the current chunk of the session.
FanOutEnds(s) ==
    /\ pump[s] \in {"out_append", "fanout"}
    /\ pump'[s] \notin {"out_append", "fanout"}

\* C40: the creating client misses no output: it is bound and attached
\* before the read task delivers anything, and every chunk the pump fans
\* out is sent to it as term.out while it stays connected.
C40_CreatorMissesNoOutput ==
    [][\A c \in Clients, s \in Sessions :
          /\ (CreateSessionInserted(c) /\ arg[c] = s)
             => /\ bound'[c] = s
                /\ c \in attached'[s]
                /\ chunkNo'[s] = 0
                /\ \A x \in Clients : outLog'[x][s] = << >>
          /\ ( /\ FanOutEnds(s)
               /\ IsCreator(c, s)
               /\ conn[c] = "open" /\ conn'[c] = "open"
               /\ \E x \in Clients : WasSent(outLog', x, s, chunkNo[s]) )
             => WasSent(outLog', c, s, chunkNo[s])]_vars

=============================================================================
